---- MODULE Spec2Model ----
(***************************************************************************)
(* Model of backend/pitch_deck_backend.py: the Flask application that      *)
(* generates pitch decks through an external text-generation service and   *)
(* falls back to a local template.                                         *)
(*                                                                         *)
(* Python strings that the code inspects character by character (lower,    *)
(* title, replace, startswith, slicing, chr/ord) are sequences of          *)
(* one-character strings; text that is only assembled is a TLA+ string.    *)
(* JSON values of a request body are tagged records.  The long literal     *)
(* paragraphs of the fallback template are abridged: every interpolation   *)
(* of a request value is kept, in its place.                               *)
(***************************************************************************)
EXTENDS Naturals, Integers, Sequences, FiniteSets, TLC

VARIABLES
    Config,     \* class Config: the process-wide configuration
    ai_client,  \* module global ai_client: "openai", "anthropic" or "None"
    now,        \* the calendar month datetime.now() falls in
    req,        \* per worker thread: the request it handles (see IdleSlot)
    PyPDF2,     \* module global PyPDF2: TRUE when the package was imported, FALSE for None
    Document,   \* module global Document (python-docx), likewise
    Presentation, \* module global Presentation (python-pptx), likewise
    extraction  \* the latest call of ContentExtractor.extract (see NoExtraction)

\* the optional packages of the file handling
modules == <<PyPDF2, Document, Presentation>>

vars == <<Config, ai_client, now, req, PyPDF2, Document, Presentation, extraction>>

----------------------------------------------------------------------------
(* Bounds of the model *)

\* the months the clock moves through
MaxMonth == 2

\* the longest file content, in bytes, and the most pages or paragraphs of a document
MaxBytes == 2
MaxUnits == 2

\* worker threads of the hosting layer; Worker1 alone serves the sequential runs
Workers == {"w1", "w2"}
Worker1 == "w1"
Worker2 == "w2"

----------------------------------------------------------------------------
(* Python strings as character sequences *)

LowerLetters == <<"a","b","c","d","e","f","g","h","i","j","k","l","m",
                  "n","o","p","q","r","s","t","u","v","w","x","y","z">>
UpperLetters == <<"A","B","C","D","E","F","G","H","I","J","K","L","M",
                  "N","O","P","Q","R","S","T","U","V","W","X","Y","Z">>
Digits == <<"0","1","2","3","4","5","6","7","8","9">>

InSeq(c, seq) == \E i \in 1..Len(seq) : seq[i] = c
IndexOf(c, seq) == CHOOSE i \in 1..Len(seq) : seq[i] = c

\* str.lower() and str.upper() on one character
LowerChar(c) == IF InSeq(c, UpperLetters) THEN LowerLetters[IndexOf(c, UpperLetters)] ELSE c
UpperChar(c) == IF InSeq(c, LowerLetters) THEN UpperLetters[IndexOf(c, LowerLetters)] ELSE c
IsLetter(c) == InSeq(c, LowerLetters) \/ InSeq(c, UpperLetters)

\* str.lower()
Lower(s) == [i \in 1..Len(s) |-> LowerChar(s[i])]

\* str.title(): the first letter of every run of letters in upper case, the rest lower
TitleCase(s) == [i \in 1..Len(s) |->
                   IF i = 1 \/ ~IsLetter(s[i - 1]) THEN UpperChar(s[i]) ELSE LowerChar(s[i])]

\* str.replace(' ', '')
RECURSIVE RemoveSpaces(_)
RemoveSpaces(s) == IF s = <<>> THEN <<>>
                   ELSE IF Head(s) = " " THEN RemoveSpaces(Tail(s))
                   ELSE <<Head(s)>> \o RemoveSpaces(Tail(s))

\* str.startswith(prefix)
StartsWith(s, prefix) == Len(s) >= Len(prefix) /\ SubSeq(s, 1, Len(prefix)) = prefix

\* s[1:-1]
SliceInner(s) == SubSeq(s, 2, Len(s) - 1)

\* chr(ord(c) + 1): runs of consecutive code points
CodeRuns == << <<" ", "!">>, <<"-", ".">>, Digits \o <<":">>,
               UpperLetters \o <<"[">>, LowerLetters \o <<"{">> >>
NextChar(c) == LET k == CHOOSE k \in 1..Len(CodeRuns) :
                          \E i \in 1..(Len(CodeRuns[k]) - 1) : CodeRuns[k][i] = c
               IN CodeRuns[k][IndexOf(c, CodeRuns[k]) + 1]

\* the text of a character sequence
RECURSIVE Join(_)
Join(s) == IF s = <<>> THEN "" ELSE Head(s) \o Join(Tail(s))

----------------------------------------------------------------------------
(* JSON values and request bodies *)

Null == [t |-> "null"]
Str(s) == [t |-> "str", s |-> s]
Num(n) == [t |-> "num", n |-> n]
Arr(a) == [t |-> "arr", a |-> a]
Obj(d) == [t |-> "obj", d |-> d]
\* not a JSON value: marks a key the body does not have
Absent == [t |-> "absent"]

IsStr(v) == v.t = "str"

\* Python truthiness of a JSON value
Truthy(v) == CASE v.t = "null" -> FALSE
               [] v.t = "str" -> v.s # <<>>
               [] v.t = "num" -> v.n # 0
               [] v.t = "arr" -> v.a # <<>>
               [] v.t = "obj" -> DOMAIN v.d # {}

\* str(v), as an f-string interpolates a value
Format(v) == CASE v.t = "null" -> "None"
               [] v.t = "str" -> Join(v.s)
               [] v.t = "num" -> ToString(v.n)

\* dict.get(key, default) and dict.get(key)
GetOr(d, key, default) == IF key \in DOMAIN d THEN d[key] ELSE default
Get(d, key) == GetOr(d, key, Null)

----------------------------------------------------------------------------
(* PitchRequest and the fallback template *)

Technology == <<"t","e","c","h","n","o","l","o","g","y">>
Seed == <<"s","e","e","d">>
Series == <<"s","e","r","i","e","s">>

\* MakePitchRequest with the defaults put in place of empty and null values as well
MakePitchRequestFillsEmpty(d) ==
    [company_name     |-> Get(d, "company_name"),
     industry         |-> IF Truthy(Get(d, "industry")) THEN d["industry"] ELSE Str(Technology),
     problem          |-> Get(d, "problem"),
     solution         |-> Get(d, "solution"),
     funding_stage    |-> IF Truthy(Get(d, "funding_stage")) THEN d["funding_stage"] ELSE Str(Seed),
     target_investors |-> Get(d, "target_investors"),
     team_size        |-> Get(d, "team_size"),
     current_traction |-> Get(d, "current_traction")]

\* the PitchRequest that generate_pitch builds from the body
MakePitchRequest(d) ==
    [company_name     |-> Get(d, "company_name"),
     industry         |-> GetOr(d, "industry", Str(Technology)),
     problem          |-> Get(d, "problem"),
     solution         |-> Get(d, "solution"),
     funding_stage    |-> GetOr(d, "funding_stage", Str(Seed)),
     target_investors |-> Get(d, "target_investors"),
     team_size        |-> Get(d, "team_size"),
     current_traction |-> Get(d, "current_traction")]

\* the keys of the dict that generate_mock_pitch and format_pitch_response return
PitchKeys == {"tagline", "title", "problem", "solution", "market", "business_model",
              "traction", "competition", "team", "financials", "ask"}

FundingAmounts == ("pre-seed" :> "$500K - $1M") @@ ("seed" :> "$2M - $5M") @@
                  ("series-a" :> "$10M - $15M") @@ ("series-b" :> "$20M - $50M") @@
                  ("series-c" :> "$50M+")

TamByIndustry == ("fintech" :> <<"$","1",".","5","T">>) @@
                 ("healthcare" :> <<"$","3",".","6","T">>) @@
                 ("saas" :> <<"$","2","0","0","B">>) @@
                 ("ecommerce" :> <<"$","5",".","5","T">>) @@
                 ("edtech" :> <<"$","3","5","0","B">>) @@
                 ("ai" :> <<"$","1","5","0","B">>)

MonthNames == <<"January", "February", "March", "April", "May", "June", "July",
                "August", "September", "October", "November", "December">>
\* datetime.now().strftime('%B %Y') in month m of the process's life
MonthYear(m) == MonthNames[((m - 1) % 12) + 1] \o " " \o ToString(2025 + ((m - 1) \div 12))

\* a Python exception leaving a function, and a returned value
Raised == [ok |-> FALSE]
Returned(v) == [ok |-> TRUE, value |-> v]

\* the letter of the round after a series round, 'A' otherwise
NextRound(stage) == IF StartsWith(stage, Series)
                    THEN UpperChar(NextChar(stage[Len(stage)]))
                    ELSE "A"

\* generate_mock_pitch raises where it calls a str method on a value that is no str
MockRaises(request) == \/ ~IsStr(request.industry)
                       \/ ~IsStr(request.funding_stage)
                       \/ ~IsStr(request.company_name)

\* funding_amounts.get(...) if it ignored the letter case of the stage
FundingAmountAnyCase(stage) == GetOr(FundingAmounts, Join(Lower(stage)), "$5M")

\* funding_amounts.get(request.funding_stage, "$5M")
FundingAmount(stage) == GetOr(FundingAmounts, Join(stage), "$5M")

\* tam_by_industry.get(request.industry.lower(), "$100B")
Tam(industry) == GetOr(TamByIndustry, Join(Lower(industry)), <<"$","1","0","0","B">>)

\* the 'market' text of the template
MarketText(tam, industry) ==
    "Market Opportunity\n\nTotal Addressable Market (TAM): "
    \o Join(tam) \o "\nServiceable Addressable Market (SAM): $"
    \o Join(SliceInner(tam)) \o "B\n   - " \o industry \o " segment specifically"

\* the 'ask' text of the template
AskText(funding_amount, request) ==
    "The Ask\n\nRaising: " \o funding_amount \o " "
    \o Join(TitleCase(request.funding_stage.s)) \o " Round\n\nSeries "
    \o NextRound(request.funding_stage.s) \o " ready\n\nContact: founders@"
    \o Join(RemoveSpaces(Lower(request.company_name.s))) \o ".com"

MockFields(request, month) ==
    LET stage == request.funding_stage.s
        funding_amount == FundingAmount(stage)
        tam == Tam(request.industry.s)
        industry == Format(request.industry)
        tagline == "Revolutionizing " \o industry \o " through innovative technology"
    IN  [k \in PitchKeys |->
          CASE k = "tagline" -> tagline
            [] k = "title" -> Format(request.company_name) \o "\n\n" \o tagline
                              \o "\n\nInvestor Deck | " \o Join(TitleCase(stage))
                              \o " Round\n" \o MonthYear(month)
            [] k = "problem" -> Format(request.problem) \o "\n\nCurrent Pain Points:\n* 73% of "
                                \o industry \o " professionals report daily frustrations"
            [] k = "solution" -> Format(request.solution) \o "\n\nOur Approach:\n"
                                 \o "* AI-powered automation reducing manual work by 80%"
            [] k = "market" -> MarketText(tam, industry)
            [] k = "business_model" -> "Revenue Model\n\nSubscription (SaaS)"
            [] k = "traction" -> "Traction & Validation\n\nGrowth Metrics:"
            [] k = "competition" -> "Competitive Landscape\n\nDirect Competitors:"
            [] k = "team" -> "Leadership Team\n\nCEO & Co-founder\n* 10+ years in " \o industry
            [] k = "financials" -> "Financial Projections\n\nCurrent Status:"
            [] k = "ask" -> AskText(funding_amount, request)]

\* GenerateMockPitch with the date put into the financials as well
GenerateMockPitchDated(request, month) ==
    IF MockRaises(request) THEN Raised
    ELSE Returned([MockFields(request, month) EXCEPT !["financials"] = @ \o "\n" \o MonthYear(month)])

\* generate_mock_pitch: the fallback template, or the exception it raises
GenerateMockPitch(request, month) ==
    IF MockRaises(request) THEN Raised ELSE Returned(MockFields(request, month))

\* format_pitch_response: the service's JSON object brought to the fixed keys
FormatPitchResponse(content, request) ==
    [k \in PitchKeys |->
      CASE k = "tagline" -> GetOr(content, "tagline", "Transforming " \o Format(request.industry))
        [] k = "title" -> GetOr(content, "title", Format(request.company_name) \o " Pitch Deck")
        [] k = "problem" -> GetOr(content, "problem", Format(request.problem))
        [] k = "solution" -> GetOr(content, "solution", Format(request.solution))
        [] k = "market" -> GetOr(content, "market", "Market opportunity analysis")
        [] k = "business_model" -> GetOr(content, "business_model", "Subscription-based SaaS model")
        [] k = "traction" -> GetOr(content, "traction", "Early traction and validation")
        [] k = "competition" -> GetOr(content, "competition", "Competitive landscape")
        [] k = "team" -> GetOr(content, "team", "Experienced leadership team")
        [] k = "financials" -> GetOr(content, "financials", "Financial projections")
        [] k = "ask" -> GetOr(content, "ask", "Raising " \o Format(request.funding_stage) \o " round")]

----------------------------------------------------------------------------
(* Start-up: class Config and the module global ai_client *)

\* what os.getenv can give for each option
Providers == {"openai", "anthropic", "mock"}
KeyValues == {"None", "sk-key"}

\* ai_client as the module body sets it (the openai and anthropic packages installed)
InitClient(cfg) ==
    IF cfg.AI_PROVIDER = "openai" /\ cfg.OPENAI_API_KEY # "None" THEN "openai"
    ELSE IF cfg.AI_PROVIDER = "anthropic" /\ cfg.ANTHROPIC_API_KEY # "None" THEN "anthropic"
    ELSE "None"

StartConfigs ==
    {[SECRET_KEY |-> "dev-secret-key-change-in-production",
      AI_PROVIDER |-> p,
      OPENAI_API_KEY |-> ok,
      OPENAI_MODEL |-> "gpt-5",
      ANTHROPIC_API_KEY |-> ak,
      MAX_CONTENT_LENGTH |-> 50 * 1024 * 1024,
      USE_BUDGET_MODEL |-> b] :
        p \in Providers, ok \in KeyValues, ak \in KeyValues, b \in BOOLEAN}

\* class Config when no environment variable is set
DefaultConfig == [SECRET_KEY |-> "dev-secret-key-change-in-production",
                  AI_PROVIDER |-> "openai",
                  OPENAI_API_KEY |-> "None",
                  OPENAI_MODEL |-> "gpt-5",
                  ANTHROPIC_API_KEY |-> "None",
                  MAX_CONTENT_LENGTH |-> 50 * 1024 * 1024,
                  USE_BUDGET_MODEL |-> FALSE]

----------------------------------------------------------------------------
(* ContentExtractor *)

\* sub in s
Contains(s, sub) == \E i \in 0..(Len(s) - Len(sub)) : SubSeq(s, i + 1, i + Len(sub)) = sub

\* the printable ASCII characters, from code 32 to code 126 (the grave accent, code
\* 96, has no string of its own in this notation and is named by its code point)
Printable == <<" ","!","\"","#","$","%","&","'","(",")","*","+",",","-",".","/","0","1","2","3","4","5","6","7","8","9",":",";","<","=",">","?","@","A","B","C","D","E","F","G","H","I","J","K","L","M","N","O","P","Q","R","S","T","U","V","W","X","Y","Z","[","\\","]","^","_">>
             \o <<"U+96">> \o
             <<"a","b","c","d","e","f","g","h","i","j","k","l","m","n","o","p","q","r","s","t","u","v","w","x","y","z","{","|","}","~">>

\* a character outside printable ASCII, named by its code point
CodePoint(n) == "U+" \o ToString(n)

\* chr(n)
Chr(n) == IF n = 10 THEN "\n"
          ELSE IF n \in 32..126 THEN Printable[n - 31]
          ELSE CodePoint(n)

\* bytes.decode('utf-8', errors='ignore') of one- and two-byte sequences: a byte below
\* 128 is its character, a lead byte 0xC2..0xDF with a continuation byte 0x80..0xBF
\* after it is one character, and any other byte (0xFF, a lone continuation byte, a
\* lead byte with no continuation byte after it) is dropped
RECURSIVE Utf8Decode(_)
Utf8Decode(b) ==
    IF b = <<>> THEN <<>>
    ELSE IF b[1] < 128 THEN <<Chr(b[1])>> \o Utf8Decode(Tail(b))
    ELSE IF b[1] \in 194..223 /\ Len(b) >= 2 /\ b[2] \in 128..191
    THEN <<Chr((b[1] - 192) * 64 + (b[2] - 128))>> \o Utf8Decode(SubSeq(b, 3, Len(b)))
    ELSE Utf8Decode(Tail(b))

\* what the parser package does with the bytes: the constructor raises, or the
\* document has units (the pages of a PDF, the paragraphs of a DOCX), of each of which
\* the text is read
ParseRaise == [kind |-> "raise"]
ParseUnits(units) == [kind |-> "units", units |-> units]
\* the package was not called
NoParse == [kind |-> "none"]

\* what reading the text of one unit gives: a str, possibly empty, or an exception
\* (page.extract_text() raising, or returning None so that None + "\n" raises)
UnitText(text) == [kind |-> "text", text |-> text]
UnitRaise == [kind |-> "raise"]

\* text += page.extract_text() + "\n" over the pages
RECURSIVE PagesText(_)
PagesText(pages) == IF pages = <<>> THEN <<>>
                    ELSE Head(pages).text \o <<"\n">> \o PagesText(Tail(pages))

\* "\n".join of the paragraphs' texts
RECURSIVE JoinLines(_)
JoinLines(paragraphs) ==
    IF paragraphs = <<>> THEN <<>>
    ELSE IF Len(paragraphs) = 1 THEN paragraphs[1].text
    ELSE Head(paragraphs).text \o <<"\n">> \o JoinLines(Tail(paragraphs))

\* the parser's exception was caught: the constructor or the reading of a unit raised
ParseFailed(parse) ==
    \/ parse.kind = "raise"
    \/ \E i \in 1..Len(parse.units) : parse.units[i].kind = "raise"

\* ExtractFromPdf without its except clause
ExtractFromPdfUncaught(content, pypdf2, parse) ==
    IF ~pypdf2 THEN Returned(<<>>)
    ELSE IF ParseFailed(parse) THEN Raised
    ELSE Returned(PagesText(parse.units))

\* ContentExtractor.extract_from_pdf
ExtractFromPdf(content, pypdf2, parse) ==
    IF ~pypdf2 THEN Returned(<<>>)
    ELSE IF ParseFailed(parse) THEN Returned(<<>>)
    ELSE Returned(PagesText(parse.units))

\* ContentExtractor.extract_from_docx
ExtractFromDocx(content, document, parse) ==
    IF ~document THEN Returned(<<>>)
    ELSE IF ParseFailed(parse) THEN Returned(<<>>)
    ELSE Returned(JoinLines(parse.units))

\* ContentExtractor.extract_from_text
ExtractFromText(content) == Returned(Utf8Decode(content))

Pdf == <<"p","d","f">>
Docx == <<"d","o","c","x">>
Word == <<"w","o","r","d">>

\* ExtractPath testing for the word-processor types first
ExtractPathWordFirst(file_type) ==
    IF Contains(Lower(file_type), Docx) \/ Contains(Lower(file_type), Word) THEN "docx"
    ELSE IF Contains(Lower(file_type), Pdf) THEN "pdf"
    ELSE "text"

\* the branch ContentExtractor.extract takes
ExtractPath(file_type) ==
    IF Contains(Lower(file_type), Pdf) THEN "pdf"
    ELSE IF Contains(Lower(file_type), Docx) \/ Contains(Lower(file_type), Word) THEN "docx"
    ELSE "text"

\* ContentExtractor.extract
Extract(content, file_type, pypdf2, document, parse) ==
    LET path == ExtractPath(file_type)
    IN IF path = "pdf" THEN ExtractFromPdf(content, pypdf2, parse)
       ELSE IF path = "docx" THEN ExtractFromDocx(content, document, parse)
       ELSE ExtractFromText(content)

\* extract calls a parser package for this file type
CallsParser(file_type, pypdf2, document) ==
    \/ ExtractPath(file_type) = "pdf" /\ pypdf2
    \/ ExtractPath(file_type) = "docx" /\ document

\* no call of ContentExtractor.extract yet
NoExtraction == [content |-> <<>>, file_type |-> <<>>, parse |-> NoParse,
                 path |-> "none", result |-> Returned(<<>>)]

----------------------------------------------------------------------------
(* Requests, calls to the external service and responses *)

\* request.json: a JSON object, or anything else (no body, invalid JSON, null, an array)
JsonObject(d) == [kind |-> "object", d |-> d]
NotAnObject == [kind |-> "other", d |-> <<>>]

\* the service's reply to one call
ReplyRaise == [kind |-> "raise", d |-> <<>>]    \* create() raised: timeout, network, auth
ReplyText == [kind |-> "text", d |-> <<>>]      \* the content is not JSON: json.loads raises
ReplyArray == [kind |-> "array", d |-> <<>>]    \* JSON, but no object: content.get raises
ReplyObject(d) == [kind |-> "object", d |-> d]  \* a JSON object

NoResponse == [status |-> 0, body |-> <<>>]
Response(status, body) == [status |-> status, body |-> body]
ErrorResponse(status, message) == Response(status, "error" :> message)

\* a worker thread with no request
IdleSlot == [pc |-> "idle",        \* "idle", "openai" / "anthropic" / "extract" (blocked in the
                                   \* call), "done"
             route |-> "none",     \* the route of the request
             data |-> NotAnObject, \* request.json
             model |-> "None",     \* model of the current generate_with_openai frame
             depth |-> 0,          \* recursion depth of generate_with_openai
             sent |-> <<>>,        \* the calls issued to the service, in order
             replies |-> <<>>,     \* the service's replies to them, in order
             mockAt |-> 0,         \* the month generate_mock_pitch read, 0 if it did not run
             resp |-> NoResponse]

Init == /\ Config \in StartConfigs
        /\ ai_client = InitClient(Config)
        /\ now = 1
        /\ req = [w \in Workers |-> IdleSlot]
        /\ PyPDF2 \in BOOLEAN
        /\ Document \in BOOLEAN
        /\ Presentation \in BOOLEAN
        /\ extraction = NoExtraction

----------------------------------------------------------------------------
(* POST /api/generate-pitch *)

\* Validate without its check of the solution
ValidateSkipsSolution(d) == /\ Truthy(Get(d, "company_name"))
                            /\ Truthy(Get(d, "problem"))

\* the required-field check of generate_pitch
Validate(d) == /\ Truthy(Get(d, "company_name"))
               /\ Truthy(Get(d, "problem"))
               /\ Truthy(Get(d, "solution"))

\* SelectModel without its budget branch
SelectModelIgnoresBudget(use_budget) == [model |-> "gpt-5-2025-08-07", max_tokens |-> Null]

\* model and max_tokens of generate_with_openai
SelectModel(use_budget) ==
    IF use_budget THEN [model |-> "gpt-3.5-turbo", max_tokens |-> Num(2000)]
    ELSE [model |-> "gpt-5-2025-08-07", max_tokens |-> Null]

\* FallBack reading the request from a place all workers share (here: Worker1's)
FallBackShared(slot, month) ==
    LET m == GenerateMockPitch(MakePitchRequest(req[Worker1].data.d), month)
    IN [slot EXCEPT !.pc = "done",
                    !.mockAt = month,
                    !.resp = IF m.ok THEN Response(200, m.value)
                             ELSE ErrorResponse(500, "Failed to generate pitch deck")]

\* the slot after the fallback template ran: its dict as the response, or, when it
\* raised, the 500 of generate_pitch's except clause
FallBack(slot, month) ==
    LET m == GenerateMockPitch(MakePitchRequest(slot.data.d), month)
    IN [slot EXCEPT !.pc = "done",
                    !.mockAt = month,
                    !.resp = IF m.ok THEN Response(200, m.value)
                             ELSE ErrorResponse(500, "Failed to generate pitch deck")]

\* generate_with_openai honouring the budget flag only in its recursive call
GenerateWithOpenAIForgetful(slot, cfg, client, month) ==
    IF client = "None" THEN FallBack(slot, month)
    ELSE LET choice == SelectModel(cfg.USE_BUDGET_MODEL /\ slot.depth > 0)
         IN [slot EXCEPT !.pc = "openai",
                         !.model = choice.model,
                         !.sent = Append(@, choice)]

\* generate_with_openai up to its call of the service
GenerateWithOpenAI(slot, cfg, client, month) ==
    IF client = "None" THEN FallBack(slot, month)
    ELSE LET choice == SelectModel(cfg.USE_BUDGET_MODEL)
         IN [slot EXCEPT !.pc = "openai",
                         !.model = choice.model,
                         !.sent = Append(@, choice)]

\* generate_with_anthropic up to its call of the service
GenerateWithAnthropic(slot, client, month) ==
    IF client = "None" THEN FallBack(slot, month)
    ELSE [slot EXCEPT !.pc = "anthropic",
                      !.sent = Append(@, [model |-> "claude-3-opus-20240229",
                                          max_tokens |-> Num(2000)])]

\* AIPitchGenerator.generate
Generate(slot, cfg, client, month) ==
    IF cfg.AI_PROVIDER = "openai" THEN GenerateWithOpenAI(slot, cfg, client, month)
    ELSE IF cfg.AI_PROVIDER = "anthropic" THEN GenerateWithAnthropic(slot, client, month)
    ELSE FallBack(slot, month)

\* generate_pitch from the request to its response or to the first call of the service
HandleGeneratePitch(body, cfg, client, month) ==
    LET slot == [IdleSlot EXCEPT !.route = "/api/generate-pitch", !.data = body]
    IN IF body.kind # "object"
       THEN [slot EXCEPT !.pc = "done",
                         !.resp = ErrorResponse(500, "Failed to generate pitch deck")]
       ELSE IF ~Validate(body.d)
       THEN [slot EXCEPT !.pc = "done",
                         !.resp = ErrorResponse(400, "Company name, problem, and solution are required")]
       ELSE Generate(slot, cfg, client, month)

\* a worker takes a request and runs generate_pitch
GeneratePitch(w, body) ==
    /\ req[w].pc = "idle"
    /\ req' = [req EXCEPT ![w] = HandleGeneratePitch(body, Config, ai_client, now)]
    /\ UNCHANGED <<Config, ai_client, now, modules, extraction>>

\* the limiter of the route answers instead of the handler
RateLimited(w, body) ==
    /\ req[w].pc = "idle"
    /\ req' = [req EXCEPT ![w] = [IdleSlot EXCEPT !.pc = "done", !.data = body,
                  !.route = "/api/generate-pitch",
                  !.resp = Response(429, ("error" :> "Rate limit exceeded") @@
                                         ("message" :> "10 per 1 hour"))]]
    /\ UNCHANGED <<Config, ai_client, now, modules, extraction>>

\* the try block of generate_with_openai after the call: the reply parsed and formatted
ParsedReply(slot, reply) ==
    [slot EXCEPT !.pc = "done",
                 !.resp = Response(200, FormatPitchResponse(reply.d, MakePitchRequest(slot.data.d)))]

\* OpenAIReply with the budget model's failure switching the budget model off again
OpenAIReplyResetsBudget(w, reply) ==
    /\ req[w].pc = "openai"
    /\ LET slot == [req[w] EXCEPT !.replies = Append(@, reply)]
       IN IF reply.kind = "object"
          THEN /\ req' = [req EXCEPT ![w] = ParsedReply(slot, reply)]
               /\ UNCHANGED Config
          ELSE IF slot.model # "gpt-3.5-turbo"
          THEN /\ Config' = [Config EXCEPT !.USE_BUDGET_MODEL = TRUE]
               /\ req' = [req EXCEPT ![w] =
                            GenerateWithOpenAI([slot EXCEPT !.depth = @ + 1], Config', ai_client, now)]
          ELSE /\ req' = [req EXCEPT ![w] = FallBack(slot, now)]
               /\ Config' = [Config EXCEPT !.USE_BUDGET_MODEL = FALSE]
    /\ UNCHANGED <<ai_client, now, modules, extraction>>

\* OpenAIReply calling generate_with_openai again after every failure
OpenAIReplyRetriesAlways(w, reply) ==
    /\ req[w].pc = "openai"
    /\ LET slot == [req[w] EXCEPT !.replies = Append(@, reply)]
       IN IF reply.kind = "object"
          THEN /\ req' = [req EXCEPT ![w] = ParsedReply(slot, reply)]
               /\ UNCHANGED Config
          ELSE /\ Config' = [Config EXCEPT !.USE_BUDGET_MODEL = TRUE]
               /\ req' = [req EXCEPT ![w] =
                            GenerateWithOpenAI([slot EXCEPT !.depth = @ + 1], Config', ai_client, now)]
    /\ UNCHANGED <<ai_client, now, modules, extraction>>

\* the call of generate_with_openai returns or raises
OpenAIReply(w, reply) ==
    /\ req[w].pc = "openai"
    /\ LET slot == [req[w] EXCEPT !.replies = Append(@, reply)]
       IN IF reply.kind = "object"
          THEN /\ req' = [req EXCEPT ![w] = ParsedReply(slot, reply)]
               /\ UNCHANGED Config
          ELSE IF slot.model # "gpt-3.5-turbo"
          THEN /\ Config' = [Config EXCEPT !.USE_BUDGET_MODEL = TRUE]
               /\ req' = [req EXCEPT ![w] =
                            GenerateWithOpenAI([slot EXCEPT !.depth = @ + 1], Config', ai_client, now)]
          ELSE /\ req' = [req EXCEPT ![w] = FallBack(slot, now)]
               /\ UNCHANGED Config
    /\ UNCHANGED <<ai_client, now, modules, extraction>>

\* the call of generate_with_anthropic returns or raises
AnthropicReply(w, reply) ==
    /\ req[w].pc = "anthropic"
    /\ LET slot == [req[w] EXCEPT !.replies = Append(@, reply)]
       IN req' = [req EXCEPT ![w] = IF reply.kind = "object" THEN ParsedReply(slot, reply)
                                    ELSE FallBack(slot, now)]
    /\ UNCHANGED <<Config, ai_client, now, modules, extraction>>

\* the response goes to the client and the request's objects are discarded
Respond(w) ==
    /\ req[w].pc = "done"
    /\ req' = [req EXCEPT ![w] = IdleSlot]
    /\ UNCHANGED <<Config, ai_client, now, modules, extraction>>

\* the calendar month changes
Tick == /\ now < MaxMonth
        /\ now' = now + 1
        /\ UNCHANGED <<Config, ai_client, req, modules, extraction>>

----------------------------------------------------------------------------
(* POST /api/extract-pitch *)

\* the characters of content[:3000] go into the prompt, those of content[:1000] into
\* the fallback's slide
PromptChars == 3000
SlideChars == 1000

Min(a, b) == IF a < b THEN a ELSE b

\* s[:n]
Prefix(s, n) == SubSeq(s, 1, Min(n, Len(s)))

\* the characters \s matches and str.strip() removes
Whitespace == {" ", "\n", "\t", "\r", "\f"}
Letters == {LowerLetters[i] : i \in 1..26} \cup {UpperLetters[i] : i \in 1..26}
DigitChars == {Digits[i] : i \in 1..10}
\* [a-zA-Z0-9._%+-] and [a-zA-Z0-9.-]
LocalChars == Letters \cup DigitChars \cup {".", "_", "%", "+", "-"}
DomainChars == Letters \cup DigitChars \cup {".", "-"}

IsSpace(c) == c \in Whitespace
NonSpace(c) == c \notin Whitespace
IsLetterChar(c) == c \in Letters
IsLocalChar(c) == c \in LocalChars
IsDomainChar(c) == c \in DomainChars

\* the last position of the run of characters satisfying P that begins at i
RunEnd(s, i, P(_)) ==
    CHOOSE j \in i..Len(s) : /\ \A k \in i..j : P(s[k])
                             /\ j = Len(s) \/ ~P(s[j + 1])

\* the first position of the run of characters satisfying P that ends at j
RunStart(s, j, P(_)) ==
    CHOOSE i \in 1..j : /\ \A k \in i..j : P(s[k])
                        /\ i = 1 \/ ~P(s[i - 1])

\* the least element of a non-empty set of numbers, and the greatest
Least(S) == CHOOSE i \in S : \A j \in S : i <= j
Greatest(S) == CHOOSE i \in S : \A j \in S : i >= j

\* str.strip()
Strip(s) ==
    IF \A i \in 1..Len(s) : IsSpace(s[i]) THEN <<>>
    ELSE SubSeq(s, Least({i \in 1..Len(s) : NonSpace(s[i])}),
                   Greatest({i \in 1..Len(s) : NonSpace(s[i])}))

\* content.split('\n'): the positions of the newlines, the position of the k-th of
\* them (0 for k = 0, Len(s) + 1 when there are fewer), and the k-th line
Newlines(s) == {i \in 1..Len(s) : s[i] = "\n"}

RECURSIVE NthNewline(_, _)
NthNewline(s, k) ==
    IF k = 0 THEN 0
    ELSE LET previous == NthNewline(s, k - 1)
             later == {i \in Newlines(s) : i > previous}
         IN IF later = {} THEN Len(s) + 1 ELSE Least(later)

LineCount(s) == Cardinality(Newlines(s)) + 1
Line(s, k) == SubSeq(s, NthNewline(s, k - 1) + 1, NthNewline(s, k) - 1)

CompanyNameDefault == <<"C","o","m","p","a","n","y"," ","N","a","m","e">>
Http == <<"h","t","t","p">>
HttpScheme == <<"h","t","t","p",":","/","/">>
HttpsScheme == <<"h","t","t","p","s",":","/","/">>

\* extract_company_name: the first of the first ten lines that has between 3 and 49
\* characters and none of '@', 'http', '.', stripped
ExtractCompanyName(content) ==
    LET hits == {k \in 1..Min(10, LineCount(content)) :
                    /\ Len(Line(content, k)) > 2
                    /\ Len(Line(content, k)) < 50
                    /\ ~Contains(Line(content, k), <<"@">>)
                    /\ ~Contains(Line(content, k), Http)
                    /\ ~Contains(Line(content, k), <<".">>)}
    IN IF hits = {} THEN CompanyNameDefault ELSE Strip(Line(content, Least(hits)))

\* s has sub at position i, with at least one more character that is no whitespace
SchemeAt(s, i, sub) ==
    /\ i + Len(sub) <= Len(s)
    /\ \A k \in 1..Len(sub) : s[i + k - 1] = sub[k]
    /\ NonSpace(s[i + Len(sub)])

\* extract_url: the leftmost match of https?://[^\s]+
ExtractUrl(content) ==
    LET starts == {i \in 1..Len(content) :
                      SchemeAt(content, i, HttpScheme) \/ SchemeAt(content, i, HttpsScheme)}
    IN IF starts = {} THEN <<>>
       ELSE SubSeq(content, Least(starts), RunEnd(content, Least(starts), NonSpace))

\* the dots after the '@' at p that can end the domain part: inside the run of domain
\* characters after p, not at its start, with two letters after them
DomainDots(s, p) ==
    IF p >= Len(s) \/ ~IsDomainChar(s[p + 1]) THEN {}
    ELSE {q \in (p + 2)..(RunEnd(s, p + 1, IsDomainChar) - 2) :
             s[q] = "." /\ IsLetterChar(s[q + 1]) /\ IsLetterChar(s[q + 2])}

\* the pattern matches with its '@' at p
EmailAt(s, p) == /\ s[p] = "@"
                 /\ p > 1
                 /\ IsLocalChar(s[p - 1])
                 /\ DomainDots(s, p) # {}

\* extract_email: the leftmost match of [a-zA-Z0-9._%+-]+@[a-zA-Z0-9.-]+\.[a-zA-Z]{2,}
\* (the local part is the whole run before the '@'; the domain part, greedy, ends at
\* the last dot that two letters follow)
ExtractEmail(content) ==
    LET ats == {p \in 1..Len(content) : EmailAt(content, p)}
    IN IF ats = {} THEN <<>>
       ELSE LET p == Least(ats)
                q == Greatest(DomainDots(content, p))
            IN SubSeq(content, RunStart(content, p - 1, IsLocalChar),
                      RunEnd(content, q + 1, IsLetterChar))

\* content[:n] of a str or a list; any other value has no slices and raises
Sliceable(v) == v.t \in {"str", "arr"}
Slice(v, n) == IF v.t = "str" THEN Str(Prefix(v.s, n)) ELSE Arr(Prefix(v.a, n))

\* repr of a list of plain strings
RECURSIVE ReprItems(_)
ReprItems(a) == IF a = <<>> THEN <<>>
                ELSE <<"'">> \o Head(a).s \o <<"'">>
                     \o (IF Len(a) > 1 THEN <<",", " ">> ELSE <<>>) \o ReprItems(Tail(a))

\* the characters an f-string puts for a str or a list
Interpolate(v) == IF v.t = "str" THEN v.s ELSE <<"[">> \o ReprItems(v.a) \o <<"]">>

\* the call of extract_pitch_with_ai if it put the whole content into the prompt
ExtractionCallUncut(content) ==
    [model |-> "gpt-3.5-turbo",
     max_tokens |-> Num(1500),
     prompt |-> [before |-> "Extract pitch deck information from this content and structure it for investor slides:",
                 content |-> Interpolate(content),
                 after |-> "Return JSON with: company, slides. Identify and extract: ..."]]

\* the call of extract_pitch_with_ai: its model, max_tokens and prompt
ExtractionCall(content) ==
    [model |-> "gpt-3.5-turbo",
     max_tokens |-> Num(1500),
     prompt |-> [before |-> "Extract pitch deck information from this content and structure it for investor slides:",
                 content |-> Interpolate(Slice(content, PromptChars)),
                 after |-> "Return JSON with: company, slides. Identify and extract: ..."]]

\* the fallback dict of extract_pitch_with_ai; the str methods raise on any other value
BasicExtraction(content) ==
    IF ~IsStr(content) THEN Raised
    ELSE Returned([company |-> [name |-> ExtractCompanyName(content.s),
                                tagline |-> "Extracted from documents",
                                website |-> ExtractUrl(content.s),
                                email |-> ExtractEmail(content.s)],
                   slides |-> << [type |-> "custom",
                                  title |-> "Extracted Content",
                                  content |-> Prefix(content.s, SlideChars)] >>])

\* data.get('content', '')
ContentOf(d) == GetOr(d, "content", Str(<<>>))

\* the slot after the fallback of extract_pitch_with_ai: its dict as the response, or,
\* when it raised, the 500 of extract_pitch_content's except clause
ExtractFallBack(slot) ==
    LET basic == BasicExtraction(ContentOf(slot.data.d))
    IN [slot EXCEPT !.pc = "done",
                    !.resp = IF basic.ok THEN Response(200, basic.value)
                             ELSE ErrorResponse(500, "Failed to extract content")]

\* extract_pitch_with_ai up to its call of the service
ExtractPitchWithAI(slot, cfg, client) ==
    IF client # "None" /\ cfg.AI_PROVIDER = "openai" /\ Sliceable(ContentOf(slot.data.d))
    THEN [slot EXCEPT !.pc = "extract",
                      !.sent = Append(@, ExtractionCall(ContentOf(slot.data.d)))]
    ELSE ExtractFallBack(slot)

\* extract_pitch_content from the request to its response or to the call of the service
HandleExtractPitch(body, cfg, client) ==
    LET slot == [IdleSlot EXCEPT !.route = "/api/extract-pitch", !.data = body]
    IN IF body.kind # "object"
       THEN [slot EXCEPT !.pc = "done",
                         !.resp = ErrorResponse(500, "Failed to extract content")]
       ELSE IF ~Truthy(ContentOf(body.d))
       THEN [slot EXCEPT !.pc = "done",
                         !.resp = ErrorResponse(400, "No content provided")]
       ELSE ExtractPitchWithAI(slot, cfg, client)

\* a worker takes a request and runs extract_pitch_content
ExtractPitchContent(w, body) ==
    /\ req[w].pc = "idle"
    /\ req' = [req EXCEPT ![w] = HandleExtractPitch(body, Config, ai_client)]
    /\ UNCHANGED <<Config, ai_client, now, modules, extraction>>

\* the call of extract_pitch_with_ai returns or raises: the JSON of the reply is the
\* response, whatever it is; a failed call or a reply that is no JSON leads to the
\* fallback
ExtractReply(w, reply) ==
    /\ req[w].pc = "extract"
    /\ LET slot == [req[w] EXCEPT !.replies = Append(@, reply)]
       IN req' = [req EXCEPT ![w] =
                    IF reply.kind \in {"object", "array"}
                    THEN [slot EXCEPT !.pc = "done", !.resp = Response(200, reply.d)]
                    ELSE ExtractFallBack(slot)]
    /\ UNCHANGED <<Config, ai_client, now, modules, extraction>>

----------------------------------------------------------------------------
(* POST /api/analyze-pitch *)

Problem == <<"p","r","o","b","l","e","m">>
Solution == <<"s","o","l","u","t","i","o","n">>
Market == <<"m","a","r","k","e","t">>
BusinessModel == <<"b","u","s","i","n","e","s","s","-","m","o","d","e","l">>
Team == <<"t","e","a","m">>
Ask == <<"a","s","k">>
Traction == <<"t","r","a","c","t","i","o","n">>
Financials == <<"f","i","n","a","n","c","i","a","l","s">>

EssentialSlides == <<Problem, Solution, Market, BusinessModel, Team, Ask>>

\* len(v) of a JSON value; None and numbers have no len
HasLen(v) == v.t \in {"str", "arr", "obj"}
LenOf(v) == CASE v.t = "str" -> Len(v.s)
              [] v.t = "arr" -> Len(v.a)
              [] v.t = "obj" -> Cardinality(DOMAIN v.d)

\* the elements of a list, in order
Items(a) == {a[i] : i \in 1..Len(a)}

\* [slide.get('type', '') for slide in slides]
SlideTypes(slides) == [i \in 1..Len(slides) |-> GetOr(slides[i].d, "type", Str(<<>>))]

\* s in slide_types
HasType(slides, s) == Str(s) \in Items(SlideTypes(slides))

\* [s for s in essential_slides if s not in slide_types]
MissingSlides(slides) == SelectSeq(EssentialSlides, LAMBDA s : ~HasType(slides, s))

\* sum(len(slide.get('content', '')) for slide in slides)
RECURSIVE TotalContentLength(_)
TotalContentLength(slides) ==
    IF slides = <<>> THEN 0
    ELSE LenOf(GetOr(Head(slides).d, "content", Str(<<>>))) + TotalContentLength(Tail(slides))

\* the scores as exact fractions [num, den]; the code computes them in floats
Fraction(num, den) == [num |-> num, den |-> den]
CompletenessScore(slides) == Fraction((6 - Len(MissingSlides(slides))) * 100, 6)
QualityScore(slides) ==
    LET total == TotalContentLength(slides)
        count == Len(slides)
    IN IF total >= 200 * count THEN Fraction(100, 1) ELSE Fraction(total * 100, 200 * count)
OverallScore(slides) ==
    LET c == CompletenessScore(slides)
        q == QualityScore(slides)
    IN Fraction(c.num * q.den + q.num * c.den, 2 * c.den * q.den)

\* round(x, 1), in tenths: the nearest tenth; when x lies exactly between two tenths the
\* float that holds it is slightly above or below, and 'up' tells which
RoundTenths(x, up) ==
    LET floor == (10 * x.num) \div x.den
        rest == 2 * ((10 * x.num) % x.den)
    IN IF rest > x.den \/ (rest = x.den /\ up) THEN floor + 1 ELSE floor
Score(tenths) == [t |-> "float", tenths |-> tenths]

\* identify_strengths
IdentifyStrengths(slides) ==
    (IF HasType(slides, Problem) /\ HasType(slides, Solution)
     THEN <<"Clear problem-solution fit">> ELSE <<>>)
    \o (IF HasType(slides, Team) THEN <<"Team credentials included">> ELSE <<>>)
    \o (IF HasType(slides, Market) THEN <<"Market opportunity defined">> ELSE <<>>)
    \o (IF Len(slides) >= 10 THEN <<"Comprehensive deck">> ELSE <<>>)

\* the recommendations of analyze_pitch_quality
Recommendations(slides) ==
    (IF MissingSlides(slides) # <<>>
     THEN << [text |-> "Add missing slides: ", slides |-> MissingSlides(slides)] >> ELSE <<>>)
    \o (IF TotalContentLength(slides) < 100 * Len(slides)
        THEN <<"Add more detail to your slides">> ELSE <<>>)
    \o (IF ~HasType(slides, Traction)
        THEN <<"Include traction metrics to show validation">> ELSE <<>>)
    \o (IF ~HasType(slides, Financials) THEN <<"Add financial projections">> ELSE <<>>)

\* slides is a list of dicts whose contents have a length: anything else raises in
\* slide.get or in len
AnalysableSlides(slides) ==
    /\ slides.t = "arr"
    /\ \A i \in 1..Len(slides.a) :
          /\ slides.a[i].t = "obj"
          /\ HasLen(GetOr(slides.a[i].d, "content", Str(<<>>)))

\* analyze_pitch_quality on a non-empty value
AnalyzePitchQuality(slides, ties) ==
    IF ~AnalysableSlides(slides) THEN Raised
    ELSE LET deck == slides.a
             overall == OverallScore(deck)
         IN Returned(
              [overall_score |-> Score(RoundTenths(overall, ties.overall)),
               completeness_score |-> Score(RoundTenths(CompletenessScore(deck), FALSE)),
               quality_score |-> Score(RoundTenths(QualityScore(deck), ties.quality)),
               slide_count |-> Num(Len(deck)),
               missing_slides |-> MissingSlides(deck),
               recommendations |-> Recommendations(deck),
               strengths |-> IdentifyStrengths(deck),
               verdict |-> IF overall.num > 80 * overall.den
                           THEN "Ready to pitch!" ELSE "Needs improvement"])

\* analyze_pitch from the request to its response
HandleAnalyzePitch(body, ties) ==
    LET slot == [IdleSlot EXCEPT !.pc = "done", !.route = "/api/analyze-pitch", !.data = body]
    IN IF body.kind # "object"
       THEN [slot EXCEPT !.resp = ErrorResponse(500, "Failed to analyze pitch")]
       ELSE IF ~Truthy(GetOr(body.d, "slides", Arr(<<>>)))
       THEN [slot EXCEPT !.resp = ErrorResponse(400, "No slides provided")]
       ELSE LET analysis == AnalyzePitchQuality(GetOr(body.d, "slides", Arr(<<>>)), ties)
            IN [slot EXCEPT !.resp = IF analysis.ok THEN Response(200, analysis.value)
                                     ELSE ErrorResponse(500, "Failed to analyze pitch")]

\* a worker takes a request and runs analyze_pitch
AnalyzePitch(w, body, ties) ==
    /\ req[w].pc = "idle"
    /\ req' = [req EXCEPT ![w] = HandleAnalyzePitch(body, ties)]
    /\ UNCHANGED <<Config, ai_client, now, modules, extraction>>

----------------------------------------------------------------------------
(* POST /api/export/pptx and /api/export/pdf *)

\* PowerPointExporter.create_presentation: its own 'from pptx import Presentation' makes
\* the name local to the function, so the test 'if not Presentation' of its first line,
\* which is outside the try, raises UnboundLocalError on every call
CreatePresentation(pitch_data) == Raised

\* export_powerpoint from the request to its response
HandleExportPowerpoint(body) ==
    LET slot == [IdleSlot EXCEPT !.pc = "done", !.route = "/api/export/pptx", !.data = body]
    IN IF body.kind # "object"
       THEN [slot EXCEPT !.resp = ErrorResponse(500, "Failed to export PowerPoint")]
       ELSE IF ~Truthy(Get(body.d, "slides"))
       THEN [slot EXCEPT !.resp = ErrorResponse(400, "No slides provided")]
       ELSE LET pptx_bytes == CreatePresentation(body.d)
            IN [slot EXCEPT !.resp =
                  IF ~pptx_bytes.ok THEN ErrorResponse(500, "Failed to export PowerPoint")
                  ELSE IF pptx_bytes.value = "None"
                  THEN ErrorResponse(503, "PowerPoint export not available. Install python-pptx.")
                  ELSE Response(200, [file |-> pptx_bytes.value])]

\* a worker takes a request and runs export_powerpoint
ExportPowerpoint(w, body) ==
    /\ req[w].pc = "idle"
    /\ req' = [req EXCEPT ![w] = HandleExportPowerpoint(body)]
    /\ UNCHANGED <<Config, ai_client, now, modules, extraction>>

\* the bullet the source tests for: the three characters U+00E2 U+20AC U+00A2
Bullet == <<"U+E2", "U+20AC", "U+A2">>
Br == <<"<","b","r",">">>

\* content.replace('\n', '<br>'): the lines of the content with '<br>' between them
RECURSIVE JoinBr(_, _)
JoinBr(s, k) == IF k = 1 THEN Line(s, 1) ELSE JoinBr(s, k - 1) \o Br \o Line(s, k)
ReplaceNewlines(s) == JoinBr(s, LineCount(s))

\* content.split('<br>'): the pieces between the occurrences of '<br>', which cannot overlap
BrAt(s, i) == i + 3 <= Len(s) /\ SubSeq(s, i, i + 3) = Br
RECURSIVE SplitBr(_)
SplitBr(s) ==
    LET at == {i \in 1..Len(s) : BrAt(s, i)}
    IN IF at = {} THEN <<s>>
       ELSE LET i == Least(at)
                rest == SplitBr(SubSeq(s, i + 4, Len(s)))
            IN <<SubSeq(s, 1, i - 1)>> \o rest

\* the lines of one slide as generate_pitch_html formats them when the content has a bullet
RECURSIVE FormatLines(_, _)
FormatLines(lines, in_list) ==
    IF lines = <<>> THEN (IF in_list THEN <<"<","/","u","l",">">> ELSE <<>>)
    ELSE LET line == Head(lines)
             rest == Tail(lines)
         IN IF StartsWith(Strip(line), Bullet)
            THEN LET item == <<"<","l","i",">">> \o Strip(Tail(Strip(line)))
                             \o <<"<","/","l","i",">">>
                     more == FormatLines(rest, TRUE)
                 IN (IF in_list THEN <<>> ELSE <<"<","u","l",">">>) \o item \o more
            ELSE LET more == FormatLines(rest, FALSE)
                 IN (IF in_list THEN <<"<","/","u","l",">">> ELSE <<>>)
                    \o <<"<","p",">">> \o line \o <<"<","/","p",">">> \o more

\* the markup generate_pitch_html puts for the content of one slide
SlideMarkup(text) ==
    LET content == ReplaceNewlines(text)
    IN IF Contains(content, Bullet) THEN FormatLines(SplitBr(content), FALSE)
       ELSE <<"<","p",">">> \o content \o <<"<","/","p",">">>

\* what generate_pitch_html iterates over: a list, or an empty str or dict
Iterated(slides) == IF slides.t = "arr" THEN slides.a ELSE <<>>
IterableSlides(slides) ==
    \/ slides.t = "arr"
    \/ slides.t \in {"str", "obj"} /\ ~Truthy(slides)

\* generate_pitch_html: the title of the page and, for every slide, its heading and markup;
\* it raises unless every slide is a dict whose content is a str
GeneratePitchHtml(slides, company_name) ==
    IF ~IterableSlides(slides)
       \/ \E i \in 1..Len(Iterated(slides)) :
             \/ Iterated(slides)[i].t # "obj"
             \/ ~IsStr(GetOr(Iterated(slides)[i].d, "content", Str(<<>>)))
    THEN Raised
    ELSE Returned([title |-> company_name,
                   slides |-> [i \in 1..Len(Iterated(slides)) |->
                      [h2 |-> GetOr(Iterated(slides)[i].d, "title", Str(<<"S","l","i","d","e">>)),
                       content |-> SlideMarkup(
                           GetOr(Iterated(slides)[i].d, "content", Str(<<>>)).s)]]])

\* what 'from weasyprint import HTML' and write_pdf do in this installation
WeasyPrintOutcomes == {"not installed", "pdf", "raises"}

\* export_pdf from the request to its response
HandleExportPdf(body, weasyprint) ==
    LET slot == [IdleSlot EXCEPT !.pc = "done", !.route = "/api/export/pdf", !.data = body]
        failed == [slot EXCEPT !.resp = ErrorResponse(500, "Failed to export PDF")]
    IN IF body.kind # "object" THEN failed
       ELSE IF GetOr(body.d, "company", Obj(<<>>)).t # "obj" THEN failed
       ELSE LET company_name == GetOr(GetOr(body.d, "company", Obj(<<>>)).d, "name",
                                      Str(<<"P","i","t","c","h"," ","D","e","c","k">>))
                html_content == GeneratePitchHtml(GetOr(body.d, "slides", Arr(<<>>)),
                                                  company_name)
            IN IF ~html_content.ok \/ weasyprint = "raises" THEN failed
               ELSE IF weasyprint = "not installed"
               THEN [slot EXCEPT !.resp = Response(200, [html |-> html_content.value])]
               ELSE [slot EXCEPT !.resp = Response(200, [pdf_of |-> html_content.value])]

\* a worker takes a request and runs export_pdf
ExportPdf(w, body, weasyprint) ==
    /\ req[w].pc = "idle"
    /\ req' = [req EXCEPT ![w] = HandleExportPdf(body, weasyprint)]
    /\ UNCHANGED <<Config, ai_client, now, modules, extraction>>

----------------------------------------------------------------------------
(* POST /api/suggestions/investor-questions, GET /api/templates and GET / *)

BaseQuestions == <<"What's your customer acquisition cost and lifetime value?",
                   "How do you differentiate from competitors?",
                   "What's your go-to-market strategy?",
                   "How will you use the funding?",
                   "What are the key risks and how will you mitigate them?",
                   "What's your path to profitability?",
                   "How big is the total addressable market?",
                   "What's your unfair advantage?",
                   "Tell me about your team's background.",
                   "What are your unit economics?">>

StageQuestions ==
    ("pre-seed" :> <<"Have you validated the problem with potential customers?",
                     "What's your MVP timeline?",
                     "How much runway will this funding provide?">>) @@
    ("seed" :> <<"What's your current MRR/ARR?",
                 "How many customers do you have?",
                 "What's your churn rate?">>) @@
    ("series-a" :> <<"What's your sales efficiency ratio?",
                     "How will you scale the sales team?",
                     "What's your expansion revenue?">>)

IndustryQuestions ==
    ("fintech" :> <<"How will you handle regulatory compliance?",
                    "What's your approach to security and fraud prevention?">>) @@
    ("healthcare" :> <<"What's your FDA approval timeline?",
                       "How will you handle HIPAA compliance?">>) @@
    ("saas" :> <<"What's your net revenue retention?",
                 "How sticky is your product?">>)

QuestionLimit == 15

\* get_investor_questions if it kept one question less than QuestionLimit
GetInvestorQuestionsCutShort(industry, funding_stage) ==
    IF funding_stage.t \in {"arr", "obj"} \/ ~IsStr(industry) THEN Raised
    ELSE LET by_stage == IF IsStr(funding_stage)
                         THEN GetOr(StageQuestions, Join(funding_stage.s), <<>>) ELSE <<>>
             by_industry == GetOr(IndustryQuestions, Join(Lower(industry.s)), <<>>)
         IN Returned(Prefix(BaseQuestions \o by_stage \o by_industry, QuestionLimit - 1))

\* get_investor_questions: a list or dict as funding_stage cannot be a dict key, and only
\* a str has lower(); both raise
GetInvestorQuestions(industry, funding_stage) ==
    IF funding_stage.t \in {"arr", "obj"} \/ ~IsStr(industry) THEN Raised
    ELSE LET by_stage == IF IsStr(funding_stage)
                         THEN GetOr(StageQuestions, Join(funding_stage.s), <<>>) ELSE <<>>
             by_industry == GetOr(IndustryQuestions, Join(Lower(industry.s)), <<>>)
         IN Returned(Prefix(BaseQuestions \o by_stage \o by_industry, QuestionLimit))

\* the body of internal_error, Flask's handler of exceptions that escape a view
InternalError == ("error" :> "Internal server error") @@
                 ("message" :> "An unexpected error occurred")

\* suggest_investor_questions if it had no try: the exception reaches internal_error
HandleSuggestQuestionsUncaught(body) ==
    LET slot == [IdleSlot EXCEPT !.pc = "done",
                                 !.route = "/api/suggestions/investor-questions",
                                 !.data = body]
        failed == [slot EXCEPT !.resp = Response(500, InternalError)]
    IN IF body.kind # "object" THEN failed
       ELSE LET questions == GetInvestorQuestions(GetOr(body.d, "industry", Str(<<>>)),
                                                  GetOr(body.d, "funding_stage", Str(<<>>)))
            IN IF questions.ok
               THEN [slot EXCEPT !.resp = Response(200, [questions |-> questions.value])]
               ELSE failed

\* suggest_investor_questions from the request to its response
HandleSuggestQuestions(body) ==
    LET slot == [IdleSlot EXCEPT !.pc = "done",
                                 !.route = "/api/suggestions/investor-questions",
                                 !.data = body]
        failed == [slot EXCEPT !.resp = ErrorResponse(500, "Failed to generate questions")]
    IN IF body.kind # "object" THEN failed
       ELSE LET questions == GetInvestorQuestions(GetOr(body.d, "industry", Str(<<>>)),
                                                  GetOr(body.d, "funding_stage", Str(<<>>)))
            IN IF questions.ok
               THEN [slot EXCEPT !.resp = Response(200, [questions |-> questions.value])]
               ELSE failed

\* a worker takes a request and runs suggest_investor_questions
SuggestInvestorQuestions(w, body) ==
    /\ req[w].pc = "idle"
    /\ req' = [req EXCEPT ![w] = HandleSuggestQuestions(body)]
    /\ UNCHANGED <<Config, ai_client, now, modules, extraction>>

\* get_templates
GetTemplates(w) ==
    /\ req[w].pc = "idle"
    /\ req' = [req EXCEPT ![w] =
                 [IdleSlot EXCEPT !.pc = "done",
                                  !.route = "/api/templates",
                                  !.resp = Response(200,
                                      [templates |-> <<"modern", "minimal", "startup">>,
                                       slide_types |-> <<"title", "problem", "solution",
                                                         "market", "business-model",
                                                         "traction", "competition", "team",
                                                         "financials", "ask", "custom">>])]]
    /\ UNCHANGED <<Config, ai_client, now, modules, extraction>>

\* the frontend file: there and readable, not there, or there and unreadable
FrontendFiles == {"readable", "missing", "unreadable"}

\* index: the frontend file if it can be read, the built-in page otherwise
Index(w, frontend) ==
    /\ req[w].pc = "idle"
    /\ req' = [req EXCEPT ![w] =
                 [IdleSlot EXCEPT !.pc = "done",
                                  !.route = "/",
                                  !.resp = Response(200,
                                      [page |-> IF frontend = "readable"
                                                THEN "pitch-deck-builder.html"
                                                ELSE "API endpoints"])]]
    /\ UNCHANGED <<Config, ai_client, now, modules, extraction>>

----------------------------------------------------------------------------
(* GET /health and the rate limiter *)

\* the year and month that datetime.utcnow().isoformat() begins with
IsoMonth(m) == ToString(2025 + ((m - 1) \div 12)) \o "-"
               \o (IF ((m - 1) % 12) + 1 < 10 THEN "0" ELSE "") \o ToString(((m - 1) % 12) + 1)

\* health_check if it reported the service as unavailable once a call had failed
HealthCheckAfterFailures(w) ==
    /\ req[w].pc = "idle"
    /\ req' = [req EXCEPT ![w] =
                 [IdleSlot EXCEPT !.pc = "done",
                                  !.route = "/health",
                                  !.resp = Response(200,
                                      [status |-> "healthy",
                                       timestamp |-> IsoMonth(now),
                                       ai_provider |-> Config.AI_PROVIDER,
                                       ai_available |-> ai_client # "None"
                                                        /\ ~Config.USE_BUDGET_MODEL,
                                       pdf_support |-> PyPDF2,
                                       docx_support |-> Document,
                                       pptx_support |-> Presentation])]]
    /\ UNCHANGED <<Config, ai_client, now, modules, extraction>>

\* health_check
HealthCheck(w) ==
    /\ req[w].pc = "idle"
    /\ req' = [req EXCEPT ![w] =
                 [IdleSlot EXCEPT !.pc = "done",
                                  !.route = "/health",
                                  !.resp = Response(200,
                                      [status |-> "healthy",
                                       timestamp |-> IsoMonth(now),
                                       ai_provider |-> Config.AI_PROVIDER,
                                       ai_available |-> ai_client # "None",
                                       pdf_support |-> PyPDF2,
                                       docx_support |-> Document,
                                       pptx_support |-> Presentation])]]
    /\ UNCHANGED <<Config, ai_client, now, modules, extraction>>

\* the limit of each route: that of its limiter.limit decorator, or the default limit
Limits == ("/" :> "100 per 1 hour") @@ ("/health" :> "100 per 1 hour") @@
          ("/api/generate-pitch" :> "10 per 1 hour") @@
          ("/api/extract-pitch" :> "10 per 1 hour") @@
          ("/api/analyze-pitch" :> "5 per 1 hour") @@
          ("/api/export/pptx" :> "20 per 1 hour") @@
          ("/api/export/pdf" :> "20 per 1 hour") @@
          ("/api/templates" :> "100 per 1 hour") @@
          ("/api/suggestions/investor-questions" :> "10 per 1 hour")
Routes == DOMAIN Limits

\* the limiter rejects a request to the route and ratelimit_handler answers
Limited(w, route) ==
    /\ req[w].pc = "idle"
    /\ req' = [req EXCEPT ![w] =
                 [IdleSlot EXCEPT !.pc = "done",
                                  !.route = route,
                                  !.resp = Response(429, ("error" :> "Rate limit exceeded") @@
                                                         ("message" :> Limits[route]))]]
    /\ UNCHANGED <<Config, ai_client, now, modules, extraction>>

----------------------------------------------------------------------------
(* Calls of ContentExtractor.extract *)

\* a call of ContentExtractor.extract; parse is what the parser package does when the
\* call reaches it
ExtractFile(content, file_type, parse) ==
    /\ extraction = NoExtraction
    /\ (parse = NoParse) <=> ~CallsParser(file_type, PyPDF2, Document)
    /\ extraction' = [content |-> content, file_type |-> file_type, parse |-> parse,
                      path |-> ExtractPath(file_type),
                      result |-> Extract(content, file_type, PyPDF2, Document, parse)]
    /\ UNCHANGED <<Config, ai_client, now, req, modules>>

\* the caller has the text and the call's objects are discarded
ExtractReturn ==
    /\ extraction # NoExtraction
    /\ extraction' = NoExtraction
    /\ UNCHANGED <<Config, ai_client, now, req, modules>>

----------------------------------------------------------------------------
(* The requests and replies the runs draw from *)

AcmeCo == <<"A","c","m","e"," ","C","o">>
Fintech == <<"F","i","n","t","e","c","h">>
SeedCapital == <<"S","e","e","d">>
SeriesA == <<"s","e","r","i","e","s","-","a">>
SlowOnboarding == <<"s","l","o","w">>
AutomatedKyc == <<"k","y","c">>

\* the JSON object with the given values, a key left out where the value is Absent
Body(cn, ind, pr, so, fs, ts) ==
    LET all == [company_name |-> cn, industry |-> ind, problem |-> pr, solution |-> so,
                funding_stage |-> fs, team_size |-> ts]
    IN JsonObject([k \in {k \in DOMAIN all : all[k].t # "absent"} |-> all[k]])

NameValues == {Absent, Str(<<>>), Str(AcmeCo), Num(5)}
IndustryValues == {Absent, Null, Str(<<>>), Str(Fintech)}
ProblemValues == {Absent, Str(<<>>), Str(SlowOnboarding)}
SolutionValues == {Null, Str(AutomatedKyc)}
StageValues == {Absent, Null, Str(Seed), Str(SeedCapital), Str(SeriesA)}
TeamSizeValues == {Absent, Num(0)}

\* the bodies of the sequential runs
AllBodies == {NotAnObject} \cup
             {Body(cn, ind, pr, so, fs, Absent) :
                 cn \in NameValues, ind \in IndustryValues, pr \in ProblemValues,
                 so \in SolutionValues, fs \in StageValues} \cup
             {Body(Str(AcmeCo), ind, Str(SlowOnboarding), Str(AutomatedKyc), Str(Seed), ts) :
                 ind \in IndustryValues, ts \in TeamSizeValues}

\* the bodies of the concurrent runs
CoreBodies == {NotAnObject,
               Body(Str(AcmeCo), Str(Fintech), Str(SlowOnboarding), Str(AutomatedKyc), Str(Seed), Absent),
               Body(Str(AcmeCo), Absent, Str(SlowOnboarding), Str(AutomatedKyc), Absent, Absent),
               Body(Str(AcmeCo), Str(Technology), Str(SlowOnboarding), Str(AutomatedKyc), Str(Seed), Absent),
               Body(Str(AcmeCo), Str(Fintech), Str(<<>>), Str(AutomatedKyc), Str(Seed), Absent),
               Body(Str(AcmeCo), Null, Str(SlowOnboarding), Str(AutomatedKyc), Str(SeriesA), Absent)}

\* JSON objects the service may answer with: empty, with keys of its own choosing
\* beside the expected ones, and with none of the expected keys
EmptyObject == <<>>
EvilObject == ("title" :> "Evil Corp") @@ ("company_name" :> "Evil Corp") @@
              ("ask" :> "Wire the money to Evil Corp")
SummaryObject == ("executive_summary" :> "summary") @@ ("opportunity" :> "opportunity") @@
                 ("why_us" :> "why us")

AllReplies == {ReplyRaise, ReplyText, ReplyArray, ReplyObject(EmptyObject),
               ReplyObject(EvilObject), ReplyObject(SummaryObject)}
CoreReplies == {ReplyRaise, ReplyText, ReplyObject(EvilObject)}

\* every sequence over S of length at most n
SeqsUpTo(S, n) == UNION {[1..k -> S] : k \in 0..n}

\* file contents: the bytes of "a", of the two-byte character U+00E9 (0xC3 0xA9), and 0xFF
ByteValues == {97, 195, 169, 255}
FileContents == SeqsUpTo(ByteValues, MaxBytes)

\* declared file types
FileTypes == {<<"a","p","p","l","i","c","a","t","i","o","n","/","p","d","f">>,
              <<"P","D","F">>,
              <<"p","d","f","-","w","o","r","d">>,
              <<"d","o","c","x","-","P","d","f">>,
              <<"d","o","c","x">>,
              <<"a","p","p","l","i","c","a","t","i","o","n","/","m","s","w","o","r","d">>,
              <<"W","O","R","D">>,
              <<"t","e","x","t","/","p","l","a","i","n">>,
              <<>>,
              <<"d","o","c">>,
              <<"p","d","-","f">>}

\* the files handed to a parser: what it makes of their bytes is the parse
ParsedFiles == {<<>>, <<97>>, <<255, 97>>}

\* what the parser package may do
UnitValues == {UnitText(<<"H","i">>), UnitText(<<>>), UnitRaise}
Parses == {ParseRaise} \cup {ParseUnits(u) : u \in SeqsUpTo(UnitValues, MaxUnits)}

\* by how many characters the longest contents exceed the two character budgets
ExtraChars == 1

\* a text of n characters: digits in groups of nine with a space between them
LongText(n) == [i \in 1..n |-> IF i % 10 = 0 THEN " " ELSE Digits[(i % 10) + 1]]

PitchNotes == <<"A","c","m","e"," ","C","o","\n","W","e"," ","f","i","x"," ","o","n","b","o","a","r","d","i","n","g","."," ","S","e","e"," ","h","t","t","p","s",":","/","/","a","c","m","e",".","i","o"," ","o","r"," ","m","a","i","l"," ","h","i","@","a","c","m","e",".","i","o">>

\* the values of 'content' in the bodies sent to /api/extract-pitch
ContentValues == {Absent, Null, Str(<<>>), Num(5), Arr(<<>>), Arr(<<Str(AcmeCo)>>),
                  Str(PitchNotes)}
ExtractBodies == {NotAnObject} \cup
                 {JsonObject([k \in (IF c = Absent THEN {} ELSE {"content"}) |-> c]) :
                     c \in ContentValues}

\* contents as long as the two character budgets, and longer
LongContents == {Str(LongText(SlideChars)), Str(LongText(SlideChars + ExtraChars)),
                 Str(LongText(PromptChars)), Str(LongText(PromptChars + ExtraChars))}
LongBodies == {JsonObject([k \in {"content"} |-> c]) : c \in LongContents}

\* the bodies whose funding stage and industry the fallback template looks up
PreSeed == <<"p","r","e","-","s","e","e","d">>
SeriesB == <<"s","e","r","i","e","s","-","b">>
SeriesC == <<"s","e","r","i","e","s","-","c">>
SeedUpper == <<"S","e","e","d">>
FintechLower == <<"f","i","n","t","e","c","h">>
TemplateStages == {Absent, Null, Str(<<>>), Str(PreSeed), Str(Seed), Str(SeriesA), Str(SeriesB),
                   Str(SeriesC), Str(SeedUpper), Str(SeedCapital)}
TemplateIndustries == {Absent, Null, Str(Fintech), Str(FintechLower), Str(<<>>)}
TemplateBodies == {Body(cn, ind, Str(SlowOnboarding), Str(AutomatedKyc), fs, Absent) :
                      cn \in {Str(AcmeCo), Num(5)}, ind \in TemplateIndustries,
                      fs \in TemplateStages}

\* slides: the six essential types with a content of a given length, and others
Slide(type, content) == Obj(("type" :> Str(type)) @@ ("content" :> content))
EssentialDeck(content) == [i \in 1..6 |-> Slide(EssentialSlides[i], content)]
BulletText == <<"G","o","a","l","s","\n"," ">> \o Bullet \o <<" ","g","r","o","w","\n">>
              \o Bullet \o <<"h","i","r","e","\n","D","o","n","e">>
ShortContent == Str(LongText(15))
GoodContent == Str(LongText(121))
SlidesValues ==
    {Absent, Null, Arr(<<>>), Str(Problem), Num(5),
     Arr(<<Str(Problem)>>),
     Arr(<<Slide(Problem, Num(5))>>),
     Arr(<<Slide(Problem, ShortContent)>>),
     Arr(<<Slide(Problem, ShortContent), Slide(Solution, Arr(<<ShortContent>>))>>),
     Arr(<<Obj(<<>>), Slide(Traction, Str(BulletText)), Slide(Financials, ShortContent)>>),
     Arr(<<Slide(Team, Str(BulletText)), Slide(Market, Str(LongText(2)))>>),
     Arr(EssentialDeck(ShortContent)),
     Arr(EssentialDeck(GoodContent)),
     Arr(EssentialDeck(GoodContent) \o EssentialDeck(ShortContent))}
CompanyValues == {Absent, Null, Obj(<<>>), Obj("name" :> Str(AcmeCo))}
DeckBodies == {NotAnObject} \cup
              {JsonObject([k \in (IF s = Absent THEN {} ELSE {"slides"})
                                  \cup (IF c = Absent THEN {} ELSE {"company"}) |->
                             IF k = "slides" THEN s ELSE c]) :
                  s \in SlidesValues, c \in CompanyValues}
SlidesBodies == {NotAnObject} \cup
                {JsonObject([k \in (IF s = Absent THEN {} ELSE {"slides"}) |-> s]) :
                    s \in SlidesValues}
Ties == [overall : BOOLEAN, quality : BOOLEAN]

\* the bodies sent to /api/suggestions/investor-questions
QuestionIndustries == {Absent, Null, Str(Fintech), Str(Technology)}
QuestionStages == {Absent, Null, Arr(<<>>), Str(Seed), Str(SeedCapital), Str(SeriesA)}
QuestionBodies == {NotAnObject} \cup
                  {JsonObject([k \in (IF i = Absent THEN {} ELSE {"industry"})
                                      \cup (IF s = Absent THEN {} ELSE {"funding_stage"}) |->
                                 IF k = "industry" THEN i ELSE s]) :
                      i \in QuestionIndustries, s \in QuestionStages}

----------------------------------------------------------------------------
(* Specifications *)

\* the server with its worker threads serving requests concurrently
\* a process with every optional library installed
InitInstalled == Init /\ PyPDF2 /\ Document /\ Presentation

Next == \/ \E w \in Workers, b \in CoreBodies : GeneratePitch(w, b)
        \/ \E w \in Workers, b \in CoreBodies : RateLimited(w, b)
        \/ \E w \in Workers, r \in CoreReplies : OpenAIReply(w, r)
        \/ \E w \in Workers, r \in CoreReplies : AnthropicReply(w, r)
        \/ \E w \in Workers : Respond(w)
        \/ Tick

Spec == InitInstalled /\ [][Next]_vars

\* one worker thread serving requests one after the other, over the wide inputs
NextSeq == \/ \E b \in AllBodies : GeneratePitch(Worker1, b)
           \/ \E b \in AllBodies : RateLimited(Worker1, b)
           \/ \E r \in AllReplies : OpenAIReply(Worker1, r)
           \/ \E r \in AllReplies : AnthropicReply(Worker1, r)
           \/ Respond(Worker1)
           \/ Tick

SpecSeq == InitInstalled /\ [][NextSeq]_vars

\* ContentExtractor.extract called on files of every type
NextExtractor == \/ \E file_type \in FileTypes, parse \in Parses \cup {NoParse} :
                       \E content \in (IF parse = NoParse THEN FileContents ELSE ParsedFiles) :
                          ExtractFile(content, file_type, parse)
                 \/ ExtractReturn

\* a process started with no environment variable set and python-pptx installed;
\* PyPDF2 and python-docx installed or not
InitExtractor == /\ Init
                 /\ Config = DefaultConfig
                 /\ Presentation

SpecExtractor == InitExtractor /\ [][NextExtractor]_vars

\* every route of the app, one request at a time, and a monitor that polls /health on a
\* second worker meanwhile
NextApi == \/ \E b \in CoreBodies : GeneratePitch(Worker1, b)
           \/ \E r \in CoreReplies : OpenAIReply(Worker1, r)
           \/ \E r \in CoreReplies : AnthropicReply(Worker1, r)
           \/ \E b \in ExtractBodies : ExtractPitchContent(Worker1, b)
           \/ \E r \in AllReplies : ExtractReply(Worker1, r)
           \/ \E b \in SlidesBodies, ties \in Ties : AnalyzePitch(Worker1, b, ties)
           \/ \E b \in SlidesBodies : ExportPowerpoint(Worker1, b)
           \/ \E b \in DeckBodies, weasyprint \in WeasyPrintOutcomes :
                 ExportPdf(Worker1, b, weasyprint)
           \/ \E b \in QuestionBodies : SuggestInvestorQuestions(Worker1, b)
           \/ GetTemplates(Worker1)
           \/ \E frontend \in FrontendFiles : Index(Worker1, frontend)
           \/ HealthCheck(Worker1)
           \/ \E route \in Routes : Limited(Worker1, route)
           \/ Respond(Worker1)
           \/ HealthCheck(Worker2)
           \/ Respond(Worker2)
           \/ Tick

SpecApi == Init /\ [][NextApi]_vars

\* generate requests of a process without a client: every one is answered from the
\* fallback template
NextTemplate == \/ \E b \in TemplateBodies : GeneratePitch(Worker1, b)
                \/ Respond(Worker1)
                \/ Tick

SpecTemplate == InitExtractor /\ [][NextTemplate]_vars

\* the service of /api/extract-pitch alone, with every parser library installed
NextExtractPitch == \/ \E b \in ExtractBodies \cup LongBodies : ExtractPitchContent(Worker1, b)
                    \/ \E r \in AllReplies : ExtractReply(Worker1, r)
                    \/ Limited(Worker1, "/api/extract-pitch")
                    \/ Respond(Worker1)
                    \/ Tick

SpecExtractPitch == InitInstalled /\ [][NextExtractPitch]_vars

----------------------------------------------------------------------------
(* Vocabulary of the properties *)

\* the worker's request was taken by generate_pitch (the limiter let it through)
Handled(w) == req[w].pc # "idle" /\ req[w].resp.status # 429
Answered(w) == req[w].pc = "done"

\* a field of the body is missing or empty
MissingOrEmpty(body, key) ==
    \/ body.kind # "object"
    \/ key \notin DOMAIN body.d
    \/ body.d[key] \in {Null, Str(<<>>), Num(0)}

\* the reply reports a failed call: it raised, or its content is no JSON object
Failed(reply) == reply.kind # "object"

\* every required field of the body is a non-empty string
AllFour == {"company_name", "industry", "problem", "solution"}
WellFormed(body) ==
    /\ body.kind = "object"
    /\ \A key \in AllFour : /\ key \in DOMAIN body.d
                            /\ body.d[key].t = "str"
                            /\ body.d[key].s # <<>>

----------------------------------------------------------------------------
(* C1 *)

\* C1, as claimed, of the requests generate_pitch handles with a JSON object body: a
\* request in which company_name, industry, problem or solution is missing or empty is
\* answered 400 with an error message, and no call to the external service is made
\* for it.
C1_AsClaimed ==
    \A w \in Workers :
        (Handled(w) /\ req[w].data.kind = "object"
           /\ \E key \in AllFour : MissingOrEmpty(req[w].data, key))
        => /\ Answered(w)
           /\ req[w].resp.status = 400
           /\ "error" \in DOMAIN req[w].resp.body
           /\ req[w].sent = <<>>

\* C1, amended: a request that generate_pitch handles with a JSON object body in which
\* company_name, problem or solution is missing or empty is answered 400 with an error
\* message; a body that is no JSON object is answered 500; in both cases, and when the
\* limiter answers 429, no call to the external service is made.  industry is not checked.
C1_ValidationRejects ==
    \A w \in Workers :
        /\ (Handled(w) /\ req[w].data.kind = "object"
              /\ \E key \in {"company_name", "problem", "solution"} :
                    MissingOrEmpty(req[w].data, key))
           => /\ Answered(w)
              /\ req[w].resp.status = 400
              /\ "error" \in DOMAIN req[w].resp.body
              /\ req[w].sent = <<>>
        /\ (Handled(w) /\ req[w].data.kind # "object")
           => /\ Answered(w)
              /\ req[w].resp.status = 500
              /\ req[w].sent = <<>>
        /\ (req[w].resp.status = 429) => req[w].sent = <<>>

\* a request with only its solution missing (null), industry and the rest in place,
\* was answered 400
C1_Witness ==
    \E w \in Workers :
        /\ Handled(w) /\ Answered(w)
        /\ req[w].data.kind = "object"
        /\ ~MissingOrEmpty(req[w].data, "company_name")
        /\ ~MissingOrEmpty(req[w].data, "industry")
        /\ ~MissingOrEmpty(req[w].data, "problem")
        /\ MissingOrEmpty(req[w].data, "solution")
        /\ req[w].resp.status = 400

----------------------------------------------------------------------------
(* C2 *)

\* C2, as claimed: once a call to the external service has failed, the request issues
\* no further call and is answered from the fallback template.
C2_AsClaimed ==
    \A w \in Workers : \A i \in 1..Len(req[w].replies) :
        Failed(req[w].replies[i])
        => /\ Len(req[w].sent) = i
           /\ Answered(w)
           /\ req[w].mockAt # 0

\* C2, amended: a failed GPT-5 call is followed by exactly one further call, to
\* gpt-3.5-turbo with max_tokens 2000; a failed gpt-3.5-turbo or Anthropic call is
\* followed by no further call, the request being answered from the fallback
\* template; no request issues more than two calls.
C2_OneRetry ==
    \A w \in Workers :
        /\ Len(req[w].sent) <= 2
        /\ \A i \in 1..Len(req[w].replies) :
              Failed(req[w].replies[i])
              => IF req[w].sent[i].model = "gpt-5-2025-08-07"
                 THEN /\ Len(req[w].sent) = i + 1
                      /\ req[w].sent[i + 1] = [model |-> "gpt-3.5-turbo", max_tokens |-> Num(2000)]
                 ELSE /\ Len(req[w].sent) = i
                      /\ Answered(w)
                      /\ req[w].mockAt # 0

\* a request whose GPT-5 call failed and whose gpt-3.5-turbo call failed too was
\* answered from the fallback template after those two calls
C2_Witness ==
    \E w \in Workers :
        /\ Answered(w)
        /\ Len(req[w].sent) = 2
        /\ req[w].sent[1].model = "gpt-5-2025-08-07"
        /\ Len(req[w].replies) = 2
        /\ Failed(req[w].replies[1]) /\ Failed(req[w].replies[2])
        /\ req[w].mockAt # 0

----------------------------------------------------------------------------
(* C3 *)

\* C3, as claimed: no step changes any Config value or the client.
C3_AsClaimed == [][Config' = Config /\ ai_client' = ai_client]_vars

\* C3, amended: no step changes the client or any Config value other than
\* USE_BUDGET_MODEL, and USE_BUDGET_MODEL changes only from false to true.
C3_ConfigFrozenButBudget ==
    [][/\ ai_client' = ai_client
       /\ \A k \in DOMAIN Config \ {"USE_BUDGET_MODEL"} : Config'[k] = Config[k]
       /\ Config.USE_BUDGET_MODEL => Config'.USE_BUDGET_MODEL]_vars

\* a request's GPT-5 call has failed, after which USE_BUDGET_MODEL, false when the
\* call was prepared, is true, and a later failure has left it true
C3_Witness ==
    \E w \in Workers :
        /\ Len(req[w].replies) = 2
        /\ req[w].sent[1].model = "gpt-5-2025-08-07"
        /\ Failed(req[w].replies[1]) /\ Failed(req[w].replies[2])
        /\ Config.USE_BUDGET_MODEL

----------------------------------------------------------------------------
(* C4 *)

\* C4, as claimed: of two requests with the same inputs, served by the same process,
\* the first calls name the same model, the same first reply leads to the same number
\* of calls, and the same replies lead to the same response.
C4_AsClaimed ==
    \A w1 \in Workers, w2 \in Workers :
        (Handled(w1) /\ Handled(w2) /\ req[w1].data = req[w2].data)
        => /\ (req[w1].sent # <<>> /\ req[w2].sent # <<>>)
              => req[w1].sent[1] = req[w2].sent[1]
           /\ (Answered(w1) /\ Answered(w2) /\ req[w1].replies # <<>> /\ req[w2].replies # <<>>
                 /\ req[w1].replies[1] = req[w2].replies[1])
              => Len(req[w1].sent) = Len(req[w2].sent)
           /\ (Answered(w1) /\ Answered(w2) /\ req[w1].replies = req[w2].replies
                 /\ req[w1].mockAt = req[w2].mockAt)
              => req[w1].resp = req[w2].resp

\* C4, amended: requests are independent but for Config.USE_BUDGET_MODEL, which a
\* failed GPT-5 call of any request sets for all of them.  A call names gpt-3.5-turbo
\* only once the flag is set, and GPT-5 only as a request's first call; of two
\* requests with the same inputs whose first calls name the same model, the same
\* first reply leads to the same number of calls, and the same replies and fallback
\* month lead to the same calls and the same response.
C4_IndependentButBudget ==
    /\ \A w \in Workers : \A i \in 1..Len(req[w].sent) :
          /\ req[w].sent[i].model = "gpt-3.5-turbo" => Config.USE_BUDGET_MODEL
          /\ req[w].sent[i].model = "gpt-5-2025-08-07" => i = 1
    /\ \A w1 \in Workers, w2 \in Workers :
          (/\ Handled(w1) /\ Handled(w2) /\ Answered(w1) /\ Answered(w2)
           /\ req[w1].data = req[w2].data
           /\ (req[w1].sent # <<>> /\ req[w2].sent # <<>>) => req[w1].sent[1] = req[w2].sent[1])
          => /\ (req[w1].replies # <<>> /\ req[w2].replies # <<>>
                   /\ req[w1].replies[1] = req[w2].replies[1])
                => Len(req[w1].sent) = Len(req[w2].sent)
             /\ (req[w1].replies = req[w2].replies /\ req[w1].mockAt = req[w2].mockAt)
                => /\ req[w1].sent = req[w2].sent
                   /\ req[w1].resp = req[w2].resp

\* two answered requests with the same inputs and the same failed first reply: the one
\* called GPT-5 and then gpt-3.5-turbo, the other, served after the first one's
\* failure, called gpt-3.5-turbo only
C4_Witness ==
    \E w1 \in Workers, w2 \in Workers :
        /\ Answered(w1) /\ Answered(w2)
        /\ req[w1].data = req[w2].data
        /\ Len(req[w1].sent) = 2 /\ Len(req[w2].sent) = 1
        /\ req[w1].sent[1].model = "gpt-5-2025-08-07"
        /\ req[w2].sent[1].model = "gpt-3.5-turbo"
        /\ req[w1].replies[1] = req[w2].replies[1]
        /\ Failed(req[w1].replies[1])

----------------------------------------------------------------------------
(* C5 *)

\* the body passes the required-field check with non-empty strings
PassesValidation(body) ==
    /\ body.kind = "object"
    /\ \A key \in {"company_name", "problem", "solution"} :
          /\ key \in DOMAIN body.d
          /\ body.d[key].t = "str"
          /\ body.d[key].s # <<>>

\* C5, as claimed: a request that passes validation is answered with a well-formed
\* success result, never an error, whatever the service does and whatever the
\* optional fields hold.
C5_AsClaimed ==
    \A w \in Workers :
        (Handled(w) /\ Answered(w) /\ PassesValidation(req[w].data))
        => /\ req[w].resp.status = 200
           /\ DOMAIN req[w].resp.body = PitchKeys

----------------------------------------------------------------------------
(* C6 *)

\* every call made for the worker's request failed, and at least one was made
EveryCallFailed(w) ==
    /\ req[w].replies # <<>>
    /\ \A i \in 1..Len(req[w].replies) : Failed(req[w].replies[i])

\* C6, as claimed: when no client was configured, or every call made for the request
\* failed, the result of a request whose four required fields are non-empty strings
\* is exactly the fallback template's output for its inputs; and with no client
\* configured no call is attempted.
C6_AsClaimed ==
    \A w \in Workers :
        (Handled(w) /\ Answered(w) /\ WellFormed(req[w].data)
           /\ (ai_client = "None" \/ EveryCallFailed(w)))
        => LET m == GenerateMockPitch(MakePitchRequest(req[w].data.d), req[w].mockAt)
           IN /\ m.ok
              /\ req[w].resp = Response(200, m.value)
              /\ ai_client = "None" => req[w].sent = <<>>

----------------------------------------------------------------------------
(* C7 *)

\* C7, as claimed: with no client configured, the response to a request whose four
\* required fields are non-empty strings has non-empty executive_summary, opportunity
\* and why_us fields.
C7_AsClaimed ==
    \A w \in Workers :
        (Handled(w) /\ Answered(w) /\ WellFormed(req[w].data) /\ ai_client = "None")
        => /\ req[w].resp.status = 200
           /\ \A key \in {"executive_summary", "opportunity", "why_us"} :
                 /\ key \in DOMAIN req[w].resp.body
                 /\ req[w].resp.body[key] # ""

----------------------------------------------------------------------------
(* C8 *)

\* the fallback template ran for both workers' requests, on the same inputs
SameFallbackInputs(w1, w2) ==
    /\ req[w1].mockAt # 0 /\ req[w2].mockAt # 0
    /\ MakePitchRequest(req[w1].data.d) = MakePitchRequest(req[w2].data.d)

\* C8, as claimed: two invocations of the fallback template on the same request
\* inputs, at any two moments and in any state of the process, give the same result.
C8_AsClaimed ==
    \A w1 \in Workers, w2 \in Workers :
        SameFallbackInputs(w1, w2) => req[w1].resp = req[w2].resp

\* C8, amended: two invocations of the fallback template on the same request inputs
\* both raise or both return, with the same text in every field but title; title holds
\* the current month and year beside the inputs, so that the whole results are the
\* same when the two invocations fall in the same calendar month.
C8_SameInputsSameMonth ==
    \A w1 \in Workers, w2 \in Workers :
        SameFallbackInputs(w1, w2)
        => /\ req[w1].resp.status = req[w2].resp.status
           /\ req[w1].resp.status = 200
              => \A key \in PitchKeys \ {"title"} :
                    req[w1].resp.body[key] = req[w2].resp.body[key]
           /\ req[w1].mockAt = req[w2].mockAt => req[w1].resp = req[w2].resp

\* the fallback template answered two requests with the same inputs, one of them with
\* industry and funding_stage left to their defaults, in different months: the titles
\* differ
C8_Witness ==
    \E w1 \in Workers, w2 \in Workers :
        /\ SameFallbackInputs(w1, w2)
        /\ req[w1].data # req[w2].data
        /\ req[w1].mockAt # req[w2].mockAt
        /\ req[w1].resp.status = 200 /\ req[w2].resp.status = 200
        /\ req[w1].resp.body["title"] # req[w2].resp.body["title"]

----------------------------------------------------------------------------
(* C9 *)

\* C9, as claimed: the result of a request that passes validation has the same set of
\* fields whatever the service replied: two such requests with the same inputs get
\* results with the same fields.
C9_AsClaimed ==
    \A w1 \in Workers, w2 \in Workers :
        (/\ Handled(w1) /\ Handled(w2) /\ Answered(w1) /\ Answered(w2)
         /\ PassesValidation(req[w1].data)
         /\ req[w1].data = req[w2].data)
        => DOMAIN req[w1].resp.body = DOMAIN req[w2].resp.body

----------------------------------------------------------------------------
(* C10 *)

\* the worker's request was answered from a reply of the service
AnsweredFromReply(w) ==
    /\ Answered(w)
    /\ req[w].replies # <<>>
    /\ ~Failed(req[w].replies[Len(req[w].replies)])

\* C10, as claimed: a result made from the service's reply has a company_name field
\* that holds the caller's company_name.
C10_AsClaimed ==
    \A w \in Workers :
        AnsweredFromReply(w)
        => /\ "company_name" \in DOMAIN req[w].resp.body
           /\ req[w].resp.body["company_name"] = Format(Get(req[w].data.d, "company_name"))

----------------------------------------------------------------------------
(* C11 *)

\* ContentExtractor.extract was called
Extracted == extraction.path # "none"

\* the call went to a parser package that is not installed
ParserMissing == \/ extraction.path = "pdf" /\ ~PyPDF2
                 \/ extraction.path = "docx" /\ ~Document

\* the call went to an installed parser package, which gave the units of the document
ParsedUnits == /\ extraction.path \in {"pdf", "docx"}
               /\ ~ParserMissing
               /\ extraction.parse.kind = "units"

\* the pages of the PDF were read, there is at least one, and none has any text
PagesWithoutText ==
    /\ extraction.path = "pdf" /\ ParsedUnits
    /\ extraction.parse.units # <<>>
    /\ \A i \in 1..Len(extraction.parse.units) : extraction.parse.units[i] = UnitText(<<>>)

\* C11, as claimed: extract returns a string and never raises, and the string is empty
\* when the parser package is missing, when parsing fails, and when the pages have no
\* extractable text.
C11_AsClaimed ==
    Extracted
    => /\ extraction.result.ok
       /\ ParserMissing => extraction.result.value = <<>>
       /\ (ParsedUnits /\ ParseFailed(extraction.parse)) => extraction.result.value = <<>>
       /\ (~ParserMissing /\ extraction.parse = ParseRaise) => extraction.result.value = <<>>
       /\ PagesWithoutText => extraction.result.value = <<>>

\* C11, amended: extract returns a string and never raises; the string is empty when the
\* parser package is missing and when the parser or the reading of any page or paragraph
\* raises; a page that is read with no text adds a newline to the result, so that a PDF
\* of n pages without text gives n newlines, not the empty string.
C11_NeverRaises ==
    Extracted
    => /\ extraction.result.ok
       /\ ParserMissing => extraction.result.value = <<>>
       /\ (ParsedUnits /\ ParseFailed(extraction.parse)) => extraction.result.value = <<>>
       /\ (~ParserMissing /\ extraction.parse = ParseRaise) => extraction.result.value = <<>>
       /\ PagesWithoutText
          => extraction.result.value = [i \in 1..Len(extraction.parse.units) |-> "\n"]

\* a PDF whose first page gave text and whose second page raised: the result is empty
C11_Witness ==
    /\ extraction.path = "pdf" /\ ParsedUnits
    /\ Len(extraction.parse.units) = 2
    /\ extraction.parse.units[1].kind = "text" /\ extraction.parse.units[1].text # <<>>
    /\ extraction.parse.units[2] = UnitRaise
    /\ extraction.result = Returned(<<>>)

----------------------------------------------------------------------------
(* C12 *)

\* C12, as claimed, for any cap below the size of the largest file: the text extract
\* returns is never longer than the cap.
C12_AsClaimed ==
    (Extracted /\ extraction.result.ok) => Len(extraction.result.value) <= MaxBytes - 1

----------------------------------------------------------------------------
(* C13 *)

\* the lower-cased file type of the call has sub in it
TypeHas(sub) ==
    \E i \in 1..Len(extraction.file_type) : \E j \in i..Len(extraction.file_type) :
        /\ j - i + 1 = Len(sub)
        /\ \A k \in 1..Len(sub) : LowerChar(extraction.file_type[i + k - 1]) = sub[k]

\* C13: extract takes exactly one of three paths by the declared type, whatever its
\* letter case: the PDF path when the type contains 'pdf', also when it contains 'docx'
\* or 'word' as well; otherwise the word-processor path when it contains 'docx' or
\* 'word'; otherwise the plain-text path, whose result is the content decoded with the
\* undecodable bytes left out.
C13_Dispatch ==
    Extracted
    => /\ TypeHas(<<"p","d","f">>)
          => /\ extraction.path = "pdf"
             /\ extraction.result =
                   ExtractFromPdf(extraction.content, PyPDF2, extraction.parse)
       /\ (~TypeHas(<<"p","d","f">>)
             /\ (TypeHas(<<"d","o","c","x">>) \/ TypeHas(<<"w","o","r","d">>)))
          => /\ extraction.path = "docx"
             /\ extraction.result =
                   ExtractFromDocx(extraction.content, Document, extraction.parse)
       /\ (~TypeHas(<<"p","d","f">>)
             /\ ~TypeHas(<<"d","o","c","x">>) /\ ~TypeHas(<<"w","o","r","d">>))
          => /\ extraction.path = "text"
             /\ extraction.parse = NoParse
             /\ extraction.result.ok
             /\ Len(extraction.result.value) <= Len(extraction.content)
             /\ (\A i \in 1..Len(extraction.content) : extraction.content[i] = 97)
                => extraction.result.value = [i \in 1..Len(extraction.content) |-> "a"]
             /\ (\A i \in 1..Len(extraction.content) : extraction.content[i] = 255)
                => extraction.result.value = <<>>

\* a file whose type has both 'docx' and, in capitals, 'pdf' went to the installed PDF
\* parser, which gave its text
C13_Witness ==
    /\ TypeHas(<<"d","o","c","x">>)
    /\ TypeHas(<<"p","d","f">>)
    /\ ~Contains(extraction.file_type, <<"p","d","f">>)
    /\ extraction.path = "pdf"
    /\ ParsedUnits /\ ~ParseFailed(extraction.parse)
    /\ extraction.result.value # <<>>

----------------------------------------------------------------------------
(* /api/extract-pitch: what reaches the service *)

ExtractRequest(w) == req[w].route = "/api/extract-pitch" /\ req[w].pc # "idle"
                     /\ req[w].resp.status # 429
SubmittedContent(w) == ContentOf(req[w].data.d)

\* C14: for every content string submitted to the extraction endpoint, the part of it
\* embedded in the prompt of a call to the service is its prefix of at most 3,000
\* characters: as long as the content when that is shorter, 3,000 characters otherwise,
\* and character by character the beginning of the content
C14_PromptPrefix ==
    \A w \in Workers :
        (ExtractRequest(w) /\ req[w].data.kind = "object") =>
            \A n \in 1..Len(req[w].sent) :
                IsStr(SubmittedContent(w)) =>
                    LET whole == SubmittedContent(w).s
                        part == req[w].sent[n].prompt.content
                    IN /\ Len(part) <= 3000
                       /\ Len(part) = Min(Len(whole), 3000)
                       /\ \A i \in 1..Len(part) : part[i] = whole[i]

\* a content of more than 3,000 characters was sent on, cut to 3,000
C14_Witness ==
    \E w \in Workers :
        /\ ExtractRequest(w) /\ req[w].data.kind = "object"
        /\ IsStr(SubmittedContent(w))
        /\ Len(SubmittedContent(w).s) > 3000
        /\ Len(req[w].sent) = 1
        /\ Len(req[w].sent[1].prompt.content) = 3000

----------------------------------------------------------------------------
(* Errors at the request boundary *)

\* C15: every request a handler takes is answered, whatever its body: with a success, with
\* a 400 or 503 that carries one of the handlers' error messages, or with a 500 whose
\* body is nothing but the fixed message of that route; no exception leaves a handler
\* (the body of Flask's own error handler never appears) and the worker is free again
\* once the response is out
C15_HandlersCatch ==
    \A w \in Workers :
        (Answered(w) /\ req[w].resp.status # 429) =>
            LET status == req[w].resp.status
                body == req[w].resp.body
                route == req[w].route
            IN \/ status = 200
               \/ /\ status \in {400, 503}
                  /\ DOMAIN body = {"error"}
                  /\ body.error \in {"Company name, problem, and solution are required",
                                     "No content provided", "No slides provided",
                                     "PowerPoint export not available. Install python-pptx."}
               \/ /\ status = 500
                  /\ DOMAIN body = {"error"}
                  /\ \/ route = "/api/generate-pitch"
                        /\ body.error = "Failed to generate pitch deck"
                     \/ route = "/api/extract-pitch"
                        /\ body.error = "Failed to extract content"
                     \/ route = "/api/analyze-pitch"
                        /\ body.error = "Failed to analyze pitch"
                     \/ route = "/api/export/pptx"
                        /\ body.error = "Failed to export PowerPoint"
                     \/ route = "/api/export/pdf"
                        /\ body.error = "Failed to export PDF"
                     \/ route = "/api/suggestions/investor-questions"
                        /\ body.error = "Failed to generate questions"

\* a body that is no JSON object, and a field of an unexpected type, were each answered
\* with the route's generic 500
C15_Witness ==
    \E w \in Workers :
        /\ Answered(w)
        /\ req[w].resp.status = 500
        /\ \/ req[w].route = "/api/analyze-pitch" /\ req[w].data.kind # "object"
           \/ /\ req[w].route = "/api/suggestions/investor-questions"
              /\ req[w].data.kind = "object"
              /\ "industry" \in DOMAIN req[w].data.d
              /\ req[w].data.d["industry"] = Null

----------------------------------------------------------------------------
(* The funding table of the fallback template *)

\* the request a worker answered from the fallback template, which returned
FromTemplate(w) == /\ Answered(w)
                   /\ req[w].route = "/api/generate-pitch"
                   /\ req[w].mockAt # 0
                   /\ req[w].resp.status = 200
StageOf(w) == Join(MakePitchRequest(req[w].data.d).funding_stage.s)

\* C16: the 'ask' text of the fallback template holds the range of the stage's row in
\* the table for pre-seed, seed ("$2M - $5M"), series-a, series-b and series-c, and "$5M"
\* for every other stage, a known label in another letter case included; for industry
\* "Fintech" and stage "seed" the market text holds the Fintech figure and the ask text
\* the seed range
C16_FundingTable ==
    \A w \in Workers :
        FromTemplate(w) =>
            LET request == MakePitchRequest(req[w].data.d)
                range == CASE StageOf(w) = "pre-seed" -> "$500K - $1M"
                           [] StageOf(w) = "seed" -> "$2M - $5M"
                           [] StageOf(w) = "series-a" -> "$10M - $15M"
                           [] StageOf(w) = "series-b" -> "$20M - $50M"
                           [] StageOf(w) = "series-c" -> "$50M+"
                           [] OTHER -> "$5M"
            IN /\ req[w].resp.body["ask"] = AskText(range, request)
               /\ (request.industry = Str(Fintech) /\ StageOf(w) = "seed") =>
                     /\ req[w].resp.body["market"] = MarketText(<<"$","1",".","5","T">>, "Fintech")
                     /\ req[w].resp.body["ask"] = AskText("$2M - $5M", request)

\* the template answered a Fintech seed request with the seed range in its ask
C16_Witness ==
    \E w \in Workers :
        /\ FromTemplate(w)
        /\ MakePitchRequest(req[w].data.d).industry = Str(Fintech)
        /\ StageOf(w) = "seed"
        /\ req[w].resp.body["ask"] = AskText("$2M - $5M", MakePitchRequest(req[w].data.d))

----------------------------------------------------------------------------
(* GET /health *)

HealthAnswer(w) == Answered(w) /\ req[w].route = "/health" /\ req[w].resp.status = 200

\* the start-up code made a client: the provider is one of the two and its key is set
ConfiguredAtStartUp ==
    \/ Config.AI_PROVIDER = "openai" /\ Config.OPENAI_API_KEY # "None"
    \/ Config.AI_PROVIDER = "anthropic" /\ Config.ANTHROPIC_API_KEY # "None"

\* C17: every answer of GET /health is a status object whose ai_available is true exactly
\* when a client was configured at start-up, in every state of the process, whatever
\* calls have failed before; and the step that answers it sends no call and changes
\* nothing but the slot of its own request
C17_HealthReadsOnly ==
    /\ [](\A w \in Workers :
             HealthAnswer(w) =>
                /\ req[w].resp.body.status = "healthy"
                /\ req[w].resp.body.ai_available = ConfiguredAtStartUp)
    /\ [][\A w \in Workers :
             (req[w].pc = "idle" /\ req'[w].route = "/health" /\ req'[w].resp.status = 200) =>
                /\ req'[w].sent = <<>>
                /\ Config' = Config /\ ai_client' = ai_client /\ now' = now
                /\ modules' = modules /\ extraction' = extraction
                /\ \A v \in Workers \ {w} : req'[v] = req[v]]_vars

\* /health reported the service as available while a call of another request had failed
\* and the budget flag was set
C17_Witness ==
    \E w, v \in Workers :
        /\ HealthAnswer(w)
        /\ req[w].resp.body.ai_available
        /\ v # w
        /\ req[v].replies # <<>>
        /\ req[v].replies[1] = ReplyRaise
        /\ Config.USE_BUDGET_MODEL

----------------------------------------------------------------------------
(* The downgrade to the budget model *)

\* in this step the service's reply to w's GPT-5 call arrived and was a failure
Gpt5CallFails(w) ==
    /\ req[w].pc = "openai"
    /\ req[w].model = "gpt-5-2025-08-07"
    /\ Len(req'[w].replies) = Len(req[w].replies) + 1
    /\ Failed(req'[w].replies[Len(req'[w].replies)])

\* in this step w issued a call to the service
IssuesCall(w) == Len(req'[w].sent) = Len(req[w].sent) + 1

\* C18: Config.USE_BUDGET_MODEL never goes from true to false; it becomes true only in a
\* step in which a GPT-5 call fails, and is true after every such step; and every call
\* that generate_with_openai issues once the flag is true, for whichever request, names
\* gpt-3.5-turbo with max_tokens 2000
C18_StickyDowngrade ==
    [][/\ Config.USE_BUDGET_MODEL => Config'.USE_BUDGET_MODEL
       /\ (~Config.USE_BUDGET_MODEL /\ Config'.USE_BUDGET_MODEL)
             => \E w \in Workers : Gpt5CallFails(w)
       /\ \A w \in Workers : Gpt5CallFails(w) => Config'.USE_BUDGET_MODEL
       /\ \A w \in Workers :
             (IssuesCall(w) /\ Config'.USE_BUDGET_MODEL /\ Config.AI_PROVIDER = "openai")
                => req'[w].sent[Len(req'[w].sent)] =
                      [model |-> "gpt-3.5-turbo", max_tokens |-> Num(2000)]]_vars

\* one request's GPT-5 call has failed and been retried, and another request, begun
\* after that, went to gpt-3.5-turbo with its first call
C18_Witness ==
    \E w, v \in Workers :
        /\ w # v
        /\ Config.USE_BUDGET_MODEL
        /\ Len(req[w].sent) = 2
        /\ req[w].sent[1].model = "gpt-5-2025-08-07"
        /\ Failed(req[w].replies[1])
        /\ Len(req[v].sent) = 1
        /\ req[v].sent[1] = [model |-> "gpt-3.5-turbo", max_tokens |-> Num(2000)]

----------------------------------------------------------------------------
(* Termination of generate_with_openai *)

InOpenAI(w) == req[w].pc = "openai"

\* C19: every answer of the service to a call of generate_with_openai either ends the
\* call (with the formatted reply or the fallback template) or takes it to its one
\* recursive level, whatever other requests do meanwhile; so it ends after at most two
\* calls to the service, one per level, and never recurses deeper than one level; the
\* recursive level exists only after a failed GPT-5 call and always calls
\* gpt-3.5-turbo, and a failed gpt-3.5-turbo call ends in the fallback template
C19_Terminates ==
    /\ [][\A w \in Workers :
             (InOpenAI(w) /\ req'[w] # req[w]) =>
                /\ Len(req'[w].replies) = Len(req[w].replies) + 1
                /\ \/ Answered(w)' /\ req'[w].sent = req[w].sent
                   \/ /\ InOpenAI(w)'
                      /\ req[w].depth = 0 /\ req'[w].depth = 1
                      /\ Len(req'[w].sent) = Len(req[w].sent) + 1]_vars
    /\ [](\A w \in Workers :
             /\ req[w].depth <= 1
             /\ Len(req[w].sent) = (IF req[w].sent = <<>> THEN 0 ELSE req[w].depth + 1)
             /\ req[w].depth = 1 =>
                   /\ req[w].sent[1].model = "gpt-5-2025-08-07"
                   /\ Failed(req[w].replies[1])
                   /\ req[w].sent[2].model = "gpt-3.5-turbo"
             /\ \A i \in 1..Len(req[w].replies) :
                   (req[w].sent[i].model = "gpt-3.5-turbo" /\ Failed(req[w].replies[i]))
                      => /\ i = Len(req[w].sent)
                         /\ Answered(w)
                         /\ req[w].mockAt # 0)

\* a call went one level deep: its GPT-5 call failed, its gpt-3.5-turbo call failed as
\* well, and it returned the fallback template while another request was waiting
C19_Witness ==
    \E w, v \in Workers :
        /\ w # v
        /\ InOpenAI(v)
        /\ Answered(w)
        /\ req[w].depth = 1
        /\ Len(req[w].replies) = 2
        /\ Failed(req[w].replies[2])
        /\ req[w].mockAt # 0

----------------------------------------------------------------------------
(* extract_pitch_with_ai *)

\* the endpoint called extract_pitch_with_ai: the body is an object with a content
CalledExtraction(w) == /\ ExtractRequest(w)
                       /\ req[w].data.kind = "object"
                       /\ Truthy(SubmittedContent(w))

\* the call of extract_pitch_with_ai was not made, or it failed
NoUsableReply(w) == \/ req[w].sent = <<>>
                    \/ /\ req[w].replies # <<>>
                       /\ req[w].replies[1].kind \in {"raise", "text"}

\* C20, as claimed: extract_pitch_with_ai issues at most one call, and only with a
\* client and provider 'openai'; when the call fails or is not made the answer is the
\* local structure, with exactly one slide, of type 'custom', holding the first 1,000
\* characters of the input, and never an error; an empty content is refused with 400
\* and no call
C20_AsClaimed ==
    \A w \in Workers :
        /\ ExtractRequest(w) =>
              /\ Len(req[w].sent) <= 1
              /\ req[w].sent # <<>> => (ai_client # "None" /\ Config.AI_PROVIDER = "openai")
        /\ (ExtractRequest(w) /\ req[w].data.kind = "object" /\ ~Truthy(SubmittedContent(w))) =>
              /\ req[w].resp.status = 400
              /\ req[w].sent = <<>>
        /\ (CalledExtraction(w) /\ Answered(w) /\ NoUsableReply(w)) =>
              /\ req[w].resp.status = 200
              /\ Len(req[w].resp.body.slides) = 1
              /\ req[w].resp.body.slides[1].type = "custom"
              /\ IsStr(SubmittedContent(w))
              /\ req[w].resp.body.slides[1].content =
                    [i \in 1..Min(Len(SubmittedContent(w).s), 1000) |-> SubmittedContent(w).s[i]]

----------------------------------------------------------------------------
(* The defaults of industry and funding_stage *)

\* a request generate_pitch handled whose body holds company_name, problem and solution,
\* none of them empty
RequiredGiven(w) ==
    /\ Answered(w) /\ req[w].resp.status # 429
    /\ req[w].route = "/api/generate-pitch"
    /\ req[w].data.kind = "object"
    /\ \A k \in {"company_name", "problem", "solution"} :
          k \in DOMAIN req[w].data.d /\ Truthy(req[w].data.d[k])

\* the value generation works with for an optional key: the body's when the key is there,
\* whatever it is, the default when it is not
Processed(d, key, default) == IF key \in DOMAIN d THEN d[key] ELSE default

\* the answer of the fallback template to a request with these two values
TemplateAnswer(w, industry, funding_stage) ==
    LET d == req[w].data.d
        result == GenerateMockPitch([company_name |-> d["company_name"],
                                     industry |-> industry,
                                     problem |-> d["problem"],
                                     solution |-> d["solution"],
                                     funding_stage |-> funding_stage,
                                     target_investors |-> Null,
                                     team_size |-> Null,
                                     current_traction |-> Null], req[w].mockAt)
    IN IF result.ok THEN Response(200, result.value)
       ELSE ErrorResponse(500, "Failed to generate pitch deck")

\* C21: a generate request with non-empty company_name, problem and solution passes
\* validation, and is processed with industry 'technology' where the body has no industry
\* key and with funding_stage 'seed' where it has no funding_stage key; a key that is
\* there with an empty or null value goes to generation as it is
C21_DefaultsWhenAbsent ==
    \A w \in Workers :
        RequiredGiven(w) =>
            /\ req[w].resp.status # 400
            /\ req[w].mockAt # 0 =>
                  req[w].resp = TemplateAnswer(w,
                                   Processed(req[w].data.d, "industry", Str(Technology)),
                                   Processed(req[w].data.d, "funding_stage", Str(Seed)))

\* a request without either key was answered for industry 'technology' and a seed round
C21_Witness ==
    \E w \in Workers :
        /\ RequiredGiven(w)
        /\ DOMAIN req[w].data.d = {"company_name", "problem", "solution"}
        /\ req[w].resp.status = 200
        /\ req[w].resp.body["tagline"] = "Revolutionizing technology through innovative technology"
        /\ req[w].resp = TemplateAnswer(w, Str(Technology), Str(Seed))

----------------------------------------------------------------------------
(* The list markup of generate_pitch_html *)

\* slide contents with several lines, with bullets in several places, and with text that
\* reads as markup
PlainLines == <<"I","n","t","r","o","\n","D","o","n","e">>
BulletOnly == Bullet \o <<"g","r","o","w">>
BulletsApart == Bullet \o <<"a","\n","m","i","d","\n"," ">> \o Bullet \o <<"b">>
BulletInside == <<"a"," ">> \o Bullet \o <<"b">>
ListTagText == <<"<","u","l",">">>
ItemTagText == <<"<","l","i",">","x">>
BulletWithTag == Bullet \o <<"a"," ","<","u","l",">">>
BulletWithClose == Bullet \o <<"a","<","/","u","l",">","b","\n">> \o Bullet \o <<"c">>
BreakText == Bullet \o <<"a","\n","b","<","b","r",">","c">>
CleanContents == {<<>>, PlainLines, BulletOnly, BulletsApart, BulletInside, BulletText}
TaggedContents == {ListTagText, ItemTagText, BulletWithTag, BulletWithClose, BreakText}
MarkupDecks ==
    {Arr(<<Slide(Problem, Str(c))>>) : c \in CleanContents \cup TaggedContents}
    \cup {Arr(<<Slide(Problem, Str(c)), Slide(Solution, Str(BulletsApart))>>) :
             c \in CleanContents}
    \cup {Arr(<<>>), Arr(<<Slide(Problem, Num(5))>>)}
MarkupBodies ==
    {JsonObject(("slides" :> s) @@ ("company" :> c)) :
        s \in MarkupDecks, c \in {Obj(<<>>), Obj("name" :> Str(AcmeCo))}}

\* one worker exports decks as PDF
NextPdf == \/ \E b \in MarkupBodies, weasyprint \in WeasyPrintOutcomes :
                 ExportPdf(Worker1, b, weasyprint)
           \/ Respond(Worker1)
           \/ Tick
SpecPdf == InitExtractor /\ [][NextPdf]_vars

\* the places of a tag in a markup
TagAt(m, i, tag) == i + Len(tag) - 1 <= Len(m) /\ SubSeq(m, i, i + Len(tag) - 1) = tag
Places(m, tag) == {i \in 1..(Len(m) + 1) : TagAt(m, i, tag)}
Opens(m) == Places(m, <<"<","u","l",">">>)
Closes(m) == Places(m, <<"<","/","u","l",">">>)

\* every '<ul>' has its '</ul>' before the next '<ul>' or the end, and every '</ul>'
\* closes a '<ul>'
BalancedLists(m) ==
    /\ \A i \in Opens(m) :
          \E j \in Closes(m) : j > i /\ \A k \in Opens(m) : ~(i < k /\ k < j)
    /\ \A j \in Closes(m) :
          \E i \in Opens(m) : i < j /\ \A k \in Closes(m) : ~(i < k /\ k < j)

\* place p of the markup is inside a list
InList(m, p) ==
    /\ \E i \in Opens(m) : i < p /\ \A j \in Closes(m) : ~(i < j /\ j < p)
    /\ \E j \in Closes(m) : j > p

\* every '<li>' is inside a list
ItemsInLists(m) == \A p \in Places(m, <<"<","l","i",">">>) : InList(m, p)

\* the n characters at place p are in a '<p>' element that is outside any list
InParagraph(m, p, n) ==
    LET tags == Places(m, <<"<","p",">">>) \cup Places(m, <<"<","/","p",">">>)
    IN \E i \in Places(m, <<"<","p",">">>), j \in Places(m, <<"<","/","p",">">>) :
          /\ i + 3 <= p /\ p + n <= j
          /\ \A k \in tags : ~(i < k /\ k < j)
          /\ ~InList(m, i)

\* the lines, in their order, are found one after the other in paragraphs of the markup
RECURSIVE ParagraphsFrom(_, _, _)
ParagraphsFrom(m, lines, from) ==
    IF lines = <<>> THEN TRUE
    ELSE LET line == Head(lines)
             at == {p \in from..(Len(m) + 1) :
                       TagAt(m, p, line) /\ InParagraph(m, p, Len(line))}
         IN at # {} /\ ParagraphsFrom(m, Tail(lines), Least(at) + Len(line))

\* the lines of a content that are not bullets
NonBulletLines(text) ==
    LET lines == [k \in 1..LineCount(text) |-> Line(text, k)]
        plain(line) == ~StartsWith(Strip(line), Bullet)
    IN SelectSeq(lines, plain)

\* the markup of one slide is as the scan requires for the content it was made from
WellFormedMarkup(text, m) ==
    /\ BalancedLists(m)
    /\ ItemsInLists(m)
    /\ ParagraphsFrom(m, NonBulletLines(text), 1)

\* the page a PDF export made, and the slides it was made from
Exported(w) ==
    /\ Answered(w) /\ req[w].resp.status = 200
    /\ req[w].route = "/api/export/pdf"
ExportedPage(w) ==
    IF "html" \in DOMAIN req[w].resp.body THEN req[w].resp.body.html
    ELSE req[w].resp.body.pdf_of

\* C22: generate_pitch_html emits balanced, never nested list markup for every slide
\* content: every '<ul>' is followed by its '</ul>' before the next '<ul>' or the end of
\* the slide, every '<li>' lies between a '<ul>' and its '</ul>', and every non-bullet
\* line is in a '<p>' outside any list, in the order of the input lines
C22_AsClaimed ==
    \A w \in Workers :
        Exported(w) =>
            LET slides == req[w].data.d["slides"].a
                page == ExportedPage(w)
            IN \A i \in 1..Len(slides) :
                  WellFormedMarkup(slides[i].d["content"].s, page.slides[i].content)

----------------------------------------------------------------------------
(* The investor questions *)

Healthcare == <<"h","e","a","l","t","h","c","a","r","e">>
Saas == <<"S","a","a","S">>
FintechUpper == <<"F","I","N","T","E","C","H">>
AllIndustries == {Absent, Null, Num(5), Str(<<>>), Str(Technology), Str(Fintech),
                  Str(FintechLower), Str(FintechUpper), Str(Healthcare), Str(Saas)}
AllStages == {Absent, Null, Num(5), Arr(<<>>), Str(<<>>), Str(PreSeed), Str(Seed),
              Str(SeriesA), Str(SeriesB), Str(SeedUpper), Str(SeedCapital)}
AllQuestionBodies ==
    {JsonObject([k \in (IF i = Absent THEN {} ELSE {"industry"})
                       \cup (IF s = Absent THEN {} ELSE {"funding_stage"}) |->
                    IF k = "industry" THEN i ELSE s]) :
        i \in AllIndustries, s \in AllStages}

\* one worker asks for the questions of every industry and stage
NextQuestions == \/ \E b \in AllQuestionBodies : SuggestInvestorQuestions(Worker1, b)
                 \/ Respond(Worker1)
                 \/ Tick
SpecQuestions == InitExtractor /\ [][NextQuestions]_vars

\* a request for questions that was handled, its industry a string and its stage a value
\* that can be looked up
AskedQuestions(w) ==
    /\ Answered(w) /\ req[w].resp.status # 429
    /\ req[w].route = "/api/suggestions/investor-questions"
    /\ req[w].data.kind = "object"
    /\ IsStr(GetOr(req[w].data.d, "industry", Str(<<>>)))
    /\ GetOr(req[w].data.d, "funding_stage", Str(<<>>)).t \notin {"arr", "obj"}

\* the questions of the stage and of the industry of a request, where the tables have any
QuestionsOfStage(w) ==
    LET stage == GetOr(req[w].data.d, "funding_stage", Str(<<>>))
    IN IF IsStr(stage) /\ Join(stage.s) \in DOMAIN StageQuestions
       THEN StageQuestions[Join(stage.s)] ELSE <<>>
QuestionsOfIndustry(w) ==
    LET industry == Join(Lower(GetOr(req[w].data.d, "industry", Str(<<>>)).s))
    IN IF industry \in DOMAIN IndustryQuestions THEN IndustryQuestions[industry] ELSE <<>>

\* C23: for every industry and funding stage the list of questions starts with the ten
\* base questions in their order, goes on with the questions of the stage and then with
\* those of the industry, and has between 10 and 15 entries: cutting at 15 drops none
C23_QuestionList ==
    \A w \in Workers :
        AskedQuestions(w) =>
            /\ req[w].resp.status = 200
            /\ LET questions == req[w].resp.body.questions
               IN /\ Len(questions) >= 10 /\ Len(questions) <= 15
                  /\ SubSeq(questions, 1, 10) = BaseQuestions
                  /\ questions = BaseQuestions \o QuestionsOfStage(w) \o QuestionsOfIndustry(w)

\* a seed-stage fintech request got all fifteen: ten base, three of the stage, two of the
\* industry
C23_Witness ==
    \E w \in Workers :
        /\ AskedQuestions(w)
        /\ req[w].resp.status = 200
        /\ Len(req[w].resp.body.questions) = 15
        /\ req[w].resp.body.questions[11] = "What's your current MRR/ARR?"
        /\ req[w].resp.body.questions[15]
              = "What's your approach to security and fraud prevention?"

----------------------------------------------------------------------------
(* The analysis of a deck *)

\* decks of every choice of essential slides with contents of one length, decks whose
\* average content length puts the overall score next to 80, and decks with repeated,
\* reordered, other and untyped slides
DeckOf(types, content) ==
    LET chosen == SelectSeq(EssentialSlides, LAMBDA s : s \in types)
    IN [i \in 1..Len(chosen) |-> Slide(chosen[i], content)]
EssentialTypes == {EssentialSlides[i] : i \in 1..Len(EssentialSlides)}
AnalyzeContents == {Str(<<>>), ShortContent, Str(LongText(120)), GoodContent,
                    Str(LongText(250))}
AtThreshold == EssentialDeck(Str(LongText(120)))
JustAbove == [AtThreshold EXCEPT ![6] = Slide(Ask, GoodContent)]
JustBelow == [AtThreshold EXCEPT ![6] = Slide(Ask, Str(LongText(119)))]
AnalyzeDecks ==
    {Arr(DeckOf(types, content)) : types \in SUBSET EssentialTypes, content \in AnalyzeContents}
    \cup {Arr(AtThreshold), Arr(JustAbove), Arr(JustBelow),
          Arr(<<Slide(Ask, ShortContent), Slide(Problem, GoodContent),
                Slide(Ask, ShortContent)>>),
          Arr(JustAbove \o <<Slide(Traction, GoodContent), Slide(Financials, GoodContent)>>),
          Arr(<<Obj("type" :> Str(Team)), Obj("content" :> GoodContent)>>),
          Arr(<<Slide(Problem, Null)>>)}
AnalyzeBodies == {JsonObject(<<>>)} \cup {JsonObject("slides" :> deck) : deck \in AnalyzeDecks}

\* one worker has decks analysed
NextAnalyze == \/ \E b \in AnalyzeBodies, ties \in Ties : AnalyzePitch(Worker1, b, ties)
               \/ Respond(Worker1)
               \/ Tick
SpecAnalyze == InitExtractor /\ [][NextAnalyze]_vars

\* a request for an analysis that was handled, its slides a list of dicts
AnalysisAsked(w) ==
    /\ Answered(w) /\ req[w].resp.status # 429
    /\ req[w].route = "/api/analyze-pitch"
    /\ req[w].data.kind = "object"
    /\ LET slides == GetOr(req[w].data.d, "slides", Arr(<<>>))
       IN /\ slides.t = "arr"
          /\ \A i \in 1..Len(slides.a) : slides.a[i].t = "obj"
DeckAnalysed(w) == GetOr(req[w].data.d, "slides", Arr(<<>>)).a
Analysed(w) == AnalysisAsked(w) /\ DeckAnalysed(w) # <<>>

\* the essential slide types that no slide of the deck has, in the order of the list
AbsentTypes(deck) ==
    SelectSeq(EssentialSlides,
              LAMBDA s : \A i \in 1..Len(deck) :
                            ~("type" \in DOMAIN deck[i].d /\ deck[i].d["type"] = Str(s)))

\* the parts of the statement, on the analysis that was reported
MissingAsClaimed(w) == req[w].resp.body.missing_slides = AbsentTypes(DeckAnalysed(w))
ScoresInRange(w) ==
    \A score \in {"completeness_score", "quality_score", "overall_score"} :
        /\ req[w].resp.body[score].tenths >= 0
        /\ req[w].resp.body[score].tenths <= 1000
CompleteWhenNoneMissing(w) ==
    req[w].resp.body.completeness_score.tenths = 1000 <=> req[w].resp.body.missing_slides = <<>>
ReadyWhenAbove80(w) ==
    req[w].resp.body.verdict = "Ready to pitch!" <=> req[w].resp.body.overall_score.tenths > 800

\* C24: for every non-empty list of slides the analysis reports as missing_slides the
\* essential slide types absent from the deck, in their fixed order; the three scores are
\* between 0 and 100; completeness_score is 100 exactly when nothing is missing; the verdict
\* is 'Ready to pitch!' exactly when overall_score is above 80; and an empty list of slides
\* is rejected with 400
C24_AsClaimed ==
    \A w \in Workers :
        /\ AnalysisAsked(w) /\ DeckAnalysed(w) = <<>> => req[w].resp.status = 400
        /\ Analysed(w) =>
              /\ req[w].resp.status = 200
              /\ MissingAsClaimed(w)
              /\ ScoresInRange(w)
              /\ CompleteWhenNoneMissing(w)
              /\ ReadyWhenAbove80(w)

============================================================================
